---- MODULE Spec2Model ----
(***************************************************************************)
(* rustpack: command validation and transaction orchestration.             *)
(*                                                                         *)
(* One behaviour is one process run: a validated command (the value        *)
(* parse_args returns) is dispatched by main to a handler, which drives    *)
(* the libalpm transaction through preflight, open, populate, prepare,     *)
(* summarize, confirm, commit and release, and appends to the history      *)
(* ledger.  libalpm, the file system, the terminal and the configuration   *)
(* file are collaborators: every call into them is a nondeterministic      *)
(* choice among the results the call can return.                           *)
(***************************************************************************)
EXTENDS Integers, Sequences, FiniteSets, TLC

VARIABLES
    scan,        \* parse_args: the locals of the scan loop and its result
    lookup,      \* find_sync_pkg called on its own: arguments and result
    prepare_failure, \* what libalpm reported when trans_prepare failed
    parsed,      \* ParsedArgs returned by parse_args (main.rs:46-53)
    isRoot,      \* utils::is_root(): the effective uid is 0
    dbLock,      \* <db_path>/db.lck exists on disk
    fs,          \* what preflight_transaction saw of the keyring files
    cache,       \* files in the package cache directory
    pc,          \* position of the run
    fn,          \* the install.rs operation the handler runs
    handle,      \* the alpm::Alpm handle: "none" or "live"
    session,     \* the libalpm transaction of the handle
    trans_flags, \* TransFlag set passed to trans_init
    idx,         \* number of targets already added by the populate loop
    names,       \* install_local: names of the package files loaded so far
    changeset,   \* packages in the list the operation inspects after prepare:
                 \* trans_add(), for a removal trans_remove()
    commit,      \* what trans_commit returned
    reasons,     \* install reasons changed by apply_install_reasons
    result,      \* what the handler returned to main
    exit_code,   \* the process exit status
    ledger,      \* lines of history.log
    hist,        \* history.rs on its own: the ledger file and its calls
    progress,    \* the state of the two progress callbacks and what they printed
    prompt,      \* the line standing on stdin when confirm_action reads it
    trace        \* calls made and lines printed so far, in order

\* the state of the functions exercised on their own
units == <<scan, lookup, hist, progress, prompt>>

vars == <<units, prepare_failure, parsed, isRoot, dbLock, fs, cache, pc, fn, handle, session,
          trans_flags, idx, names, changeset, commit, reasons, result,
          exit_code, ledger, trace>>

----------------------------------------------------------------------------
(* Bounds of the model *)

MaxLen == 2          \* longest field text drawn for a single record call
MaxRecords == 2      \* record calls made on one ledger
MaxCut == 3          \* most characters an interrupted write leaves behind
MaxEntries == 21     \* longest ledger shown
MaxEvents == 3       \* events handed to the progress callbacks
MaxProcs == 2        \* processes recording at the same time
MaxReleases == 2     \* releases made once more after an operation has ended
MaxTargets == 2      \* longest target list of a command
MaxNodeps == 2       \* largest number of -d / --nodeps given
MaxExtraFlags == 1   \* options set besides --test and --noconfirm
MaxPkgs == 1         \* largest changeset after prepare
MaxDbs == 3          \* most repositories registered when find_sync_pkg runs

----------------------------------------------------------------------------
(* Helpers *)

Range(s) == {s[i] : i \in 1..Len(s)}

SeqsUpTo(S, n) == UNION {[1..k -> S] : k \in 0..n}

B2N(b) == IF b THEN 1 ELSE 0

\* the position of the first occurrence of e in s, 0 when absent
RECURSIVE FirstAt(_, _, _)
FirstAt(s, e, i) ==
    IF i > Len(s) THEN 0
    ELSE IF s[i] = e THEN i
    ELSE FirstAt(s, e, i + 1)

First(s, e) == FirstAt(s, e, 1)

Count(s, e) == Cardinality({i \in 1..Len(s) : s[i] = e})

\* Option<String>: <<>> is None, <<v>> is Some(v)
None == <<>>
Some(v) == <<v>>

\* the character of s at position i, as a string
CharAt(s, i) == SubSeq(s, i, i)

\* str::starts_with
starts_with(s, prefix) ==
    Len(s) >= Len(prefix) /\ SubSeq(s, 1, Len(prefix)) = prefix

\* str::contains
contains(s, sub) ==
    \E i \in 1..(Len(s) - Len(sub) + 1) : SubSeq(s, i, i + Len(sub) - 1) = sub

\* char::to_lowercase for the ASCII letters
LowerChar(c) ==
    CASE c = "A" -> "a" [] c = "B" -> "b" [] c = "C" -> "c" [] c = "D" -> "d"
      [] c = "E" -> "e" [] c = "F" -> "f" [] c = "G" -> "g" [] c = "H" -> "h"
      [] c = "I" -> "i" [] c = "J" -> "j" [] c = "K" -> "k" [] c = "L" -> "l"
      [] c = "M" -> "m" [] c = "N" -> "n" [] c = "O" -> "o" [] c = "P" -> "p"
      [] c = "Q" -> "q" [] c = "R" -> "r" [] c = "S" -> "s" [] c = "T" -> "t"
      [] c = "U" -> "u" [] c = "V" -> "v" [] c = "W" -> "w" [] c = "X" -> "x"
      [] c = "Y" -> "y" [] c = "Z" -> "z" [] OTHER -> c

\* str::to_lowercase
RECURSIVE to_lowercase(_)
to_lowercase(s) ==
    IF s = "" THEN ""
    ELSE LowerChar(CharAt(s, 1)) \o to_lowercase(SubSeq(s, 2, Len(s)))

\* [String]::join
RECURSIVE join(_, _)
join(strs, sep) ==
    IF strs = <<>> THEN ""
    ELSE IF Len(strs) = 1 THEN strs[1]
    ELSE strs[1] \o sep \o join(Tail(strs), sep)

----------------------------------------------------------------------------
(* The environment: package databases, cache directory                     *)

\* target strings a user may type
Names == {"firefox", "ghost"}

\* sync databases in registration order, each with the packages it holds
SyncDbs == << {"vim"}, {"firefox", "vim"}, {"firefox"} >>

\* packages of the local database
LocalDb == {"firefox", "vim"}

\* package files a user may name for -U, and those pkg_load can load
PkgFiles == {"./firefox.pkg.tar.zst", "./ghost.pkg.tar.zst"}

LoadableFiles == {"./firefox.pkg.tar.zst"}

\* pkg.name() of a loaded package file
PkgNameOf(file) == IF file = "./firefox.pkg.tar.zst" THEN "firefox" ELSE "ghost"

\* cache directory entries: kind of file name, as clean_cache classifies it
CacheDir == {"current", "outdated", "orphan", "unparsable", "not_a_package"}

\* the keyring files and packages on disk that preflight_transaction asks for
FsStates ==
    {w \in [gpg_dir: BOOLEAN, pubring_kbx: BOOLEAN, pubring_gpg: BOOLEAN,
            trustdb: BOOLEAN, arch_keyring: BOOLEAN, cachyos_keyring: BOOLEAN,
            distro: {"arch", "cachyos", "other"}] :
        \* a file inside a directory exists only if the directory does
        ~w.gpg_dir => (~w.pubring_kbx /\ ~w.pubring_gpg /\ ~w.trustdb)}

\* nothing has been looked at yet
FsNotRead ==
    [gpg_dir |-> "unread", pubring_kbx |-> "unread", pubring_gpg |-> "unread",
     trustdb |-> "unread", arch_keyring |-> "unread",
     cachyos_keyring |-> "unread", distro |-> "unread"]

----------------------------------------------------------------------------
(* The command model (cli.rs, main.rs)                                     *)

Operation == {"Sync", "Query", "Remove", "Upgrade", "Doctor", "History", "Help"}

SyncFlagsDefault ==
    [refresh |-> FALSE, upgrade |-> FALSE, search |-> FALSE, info |-> FALSE,
     clean_cache |-> 0]

QueryFlagsDefault ==
    [info |-> FALSE, search |-> FALSE, list_files |-> FALSE, manual |-> FALSE,
     owns |-> FALSE, explicit |-> FALSE, reverse_deps |-> FALSE]

RemoveFlagsDefault == [recursive |-> FALSE, nosave |-> FALSE]

GlobalFlagsDefault ==
    [noconfirm |-> FALSE, needed |-> FALSE, overwrite |-> <<>>,
     asdeps |-> FALSE, asexplicit |-> FALSE, nodeps |-> 0,
     noscriptlet |-> FALSE, root_dir |-> None, db_path |-> None,
     cache_dir |-> None, test |-> FALSE, strict |-> FALSE,
     compact |-> FALSE, verbose |-> FALSE]

\* a validation for -S with no check of -s/-i against each other and -y/-u
ValidateSyncWithoutModeChecks(p) ==
    IF (p.sync.search \/ p.sync.info) /\ p.targets = <<>>
    THEN "error: no targets specified (use -h for help)"
    ELSE IF ~p.sync.search /\ ~p.sync.info /\ p.targets = <<>>
            /\ ~p.sync.refresh /\ ~p.sync.upgrade /\ p.sync.clean_cache = 0
    THEN "error: no targets specified (use -h for help)"
    ELSE "ok"

\* post-scan validation of parse_args for -S
ValidateSync(p) ==
    IF p.sync.search /\ p.sync.info
    THEN "error: only one of -s or -i can be used with -S"
    ELSE IF (p.sync.search \/ p.sync.info) /\ (p.sync.refresh \/ p.sync.upgrade)
    THEN "error: -s/-i cannot be combined with -y/-u"
    ELSE IF (p.sync.search \/ p.sync.info) /\ p.targets = <<>>
    THEN "error: no targets specified (use -h for help)"
    ELSE IF ~p.sync.search /\ ~p.sync.info /\ p.targets = <<>>
            /\ ~p.sync.refresh /\ ~p.sync.upgrade /\ p.sync.clean_cache = 0
    THEN "error: no targets specified (use -h for help)"
    ELSE IF p.sync.clean_cache > 0
            /\ (p.sync.search \/ p.sync.info \/ p.sync.refresh
                \/ p.sync.upgrade \/ p.targets # <<>>)
    THEN "error: -Sc/-Scc cannot be combined with other -S options"
    ELSE IF p.global.asdeps /\ p.global.asexplicit
    THEN "error: --asdeps and --asexplicit cannot be used together"
    ELSE "ok"

\* post-scan validation of parse_args for -Q
ValidateQuery(p) ==
    LET option_count ==
            B2N(p.query.info) + B2N(p.query.search) + B2N(p.query.list_files)
            + B2N(p.query.manual) + B2N(p.query.owns) + B2N(p.query.explicit)
            + B2N(p.query.reverse_deps)
    IN  IF option_count > 1
        THEN "error: only one of -i, -s, -l, -m, -o, -e, or -r can be used with -Q"
        ELSE IF (p.query.info \/ p.query.search \/ p.query.list_files
                 \/ p.query.owns \/ p.query.reverse_deps) /\ p.targets = <<>>
        THEN "error: no targets specified (use -h for help)"
        ELSE IF p.query.manual /\ p.targets # <<>>
        THEN "error: -Qm does not take targets"
        ELSE "ok"

\* post-scan validation of parse_args for -R
ValidateRemove(p) ==
    IF p.targets = <<>>
    THEN "error: no targets specified (use -h for help)"
    ELSE IF p.global.asdeps \/ p.global.asexplicit \/ p.global.needed
            \/ p.global.noscriptlet
    THEN "error: invalid options for -R"
    ELSE "ok"

\* post-scan validation of parse_args for -U
ValidateUpgrade(p) ==
    IF p.targets = <<>>
    THEN "error: no targets specified (use -h for help)"
    ELSE "ok"

\* post-scan validation of parse_args for doctor (no short flags reach here)
ValidateDoctor(p) ==
    IF p.targets # <<>>
    THEN "error: doctor does not take targets"
    ELSE "ok"

\* a global validation with no --strict clause
ValidateGlobalWithoutStrict(p) ==
    IF p.op # "Sync"
       /\ (p.global.needed \/ p.global.asdeps \/ p.global.asexplicit
           \/ p.global.noscriptlet)
    THEN "error: --needed/--asdeps/--asexplicit/--noscriptlet only apply to -S"
    ELSE IF p.op # "Sync" /\ p.global.overwrite # <<>>
    THEN "error: --overwrite only applies to -S"
    ELSE IF p.op = "Query" /\ p.global.nodeps > 0
    THEN "error: --nodeps only applies to -S/-R/-U"
    ELSE IF p.global.compact /\ p.global.verbose
    THEN "error: --compact and --verbose cannot be used together"
    ELSE "ok"

\* a global validation with no --compact/--verbose clause
ValidateGlobalWithoutOutputModes(p) ==
    IF p.op # "Sync"
       /\ (p.global.needed \/ p.global.asdeps \/ p.global.asexplicit
           \/ p.global.noscriptlet)
    THEN "error: --needed/--asdeps/--asexplicit/--noscriptlet only apply to -S"
    ELSE IF p.op # "Sync" /\ p.global.overwrite # <<>>
    THEN "error: --overwrite only applies to -S"
    ELSE IF p.op = "Query" /\ p.global.nodeps > 0
    THEN "error: --nodeps only applies to -S/-R/-U"
    ELSE IF p.global.strict /\ p.global.nodeps > 0
    THEN "error: --strict disallows --nodeps/-d/-dd"
    ELSE IF p.global.strict /\ p.global.noscriptlet
    THEN "error: --strict disallows --noscriptlet"
    ELSE IF p.global.strict /\ p.global.overwrite # <<>>
    THEN "error: --strict disallows --overwrite"
    ELSE "ok"

\* a global validation that lets the options of an installation through
\* for -U as well as for -S
ValidateGlobalForInstalls(p) ==
    IF p.op \notin {"Sync", "Upgrade"}
       /\ (p.global.needed \/ p.global.asdeps \/ p.global.asexplicit
           \/ p.global.noscriptlet)
    THEN "error: --needed/--asdeps/--asexplicit/--noscriptlet only apply to -S"
    ELSE IF p.op \notin {"Sync", "Upgrade"} /\ p.global.overwrite # <<>>
    THEN "error: --overwrite only applies to -S"
    ELSE IF p.op = "Query" /\ p.global.nodeps > 0
    THEN "error: --nodeps only applies to -S/-R/-U"
    ELSE IF p.global.compact /\ p.global.verbose
    THEN "error: --compact and --verbose cannot be used together"
    ELSE IF p.global.strict /\ p.global.nodeps > 0
    THEN "error: --strict disallows --nodeps/-d/-dd"
    ELSE IF p.global.strict /\ p.global.noscriptlet
    THEN "error: --strict disallows --noscriptlet"
    ELSE IF p.global.strict /\ p.global.overwrite # <<>>
    THEN "error: --strict disallows --overwrite"
    ELSE "ok"

\* the validation every operation goes through
ValidateGlobal(p) ==
    IF p.op # "Sync"
       /\ (p.global.needed \/ p.global.asdeps \/ p.global.asexplicit
           \/ p.global.noscriptlet)
    THEN "error: --needed/--asdeps/--asexplicit/--noscriptlet only apply to -S"
    ELSE IF p.op # "Sync" /\ p.global.overwrite # <<>>
    THEN "error: --overwrite only applies to -S"
    ELSE IF p.op = "Query" /\ p.global.nodeps > 0
    THEN "error: --nodeps only applies to -S/-R/-U"
    ELSE IF p.global.compact /\ p.global.verbose
    THEN "error: --compact and --verbose cannot be used together"
    ELSE IF p.global.strict /\ p.global.nodeps > 0
    THEN "error: --strict disallows --nodeps/-d/-dd"
    ELSE IF p.global.strict /\ p.global.noscriptlet
    THEN "error: --strict disallows --noscriptlet"
    ELSE IF p.global.strict /\ p.global.overwrite # <<>>
    THEN "error: --strict disallows --overwrite"
    ELSE "ok"

\* the checks parse_args applies once the operation is known
Validate(p) ==
    LET per_op ==
            CASE p.op = "Sync" -> ValidateSync(p)
              [] p.op = "Query" -> ValidateQuery(p)
              [] p.op = "Remove" -> ValidateRemove(p)
              [] p.op = "Upgrade" -> ValidateUpgrade(p)
              [] p.op = "Doctor" -> ValidateDoctor(p)
              [] OTHER -> "ok"
    IN  IF per_op # "ok" THEN per_op ELSE ValidateGlobal(p)

----------------------------------------------------------------------------
(* The commands a run may start from: every value parse_args accepts,      *)
(* within the bounds                                                       *)

\* the options, besides --test, --noconfirm and --nodeps, that decide what a
\* run does; --compact, --verbose and the path overrides, which change what
\* is printed and where the files are, keep their defaults in the runs
ExtraNames ==
    {"needed", "overwrite", "asdeps", "asexplicit", "noscriptlet", "strict"}

\* g with one more option given
SetFlag(g, f) ==
    CASE f = "needed" -> [g EXCEPT !.needed = TRUE]
      [] f = "overwrite" -> [g EXCEPT !.overwrite = <<"/usr/*">>]
      [] f = "asdeps" -> [g EXCEPT !.asdeps = TRUE]
      [] f = "asexplicit" -> [g EXCEPT !.asexplicit = TRUE]
      [] f = "noscriptlet" -> [g EXCEPT !.noscriptlet = TRUE]
      [] OTHER -> [g EXCEPT !.strict = TRUE]

\* the option settings with at most k options besides --test and --noconfirm
RECURSIVE GlobalsWith(_)
GlobalsWith(k) ==
    IF k = 0
    THEN {[GlobalFlagsDefault EXCEPT !.test = t, !.noconfirm = n] :
             t \in BOOLEAN, n \in BOOLEAN}
    ELSE LET prev == GlobalsWith(k - 1)
         IN  prev
             \cup {SetFlag(g, f) : g \in prev, f \in ExtraNames}
             \cup {[g EXCEPT !.nodeps = d] :
                      g \in {h \in prev : h.nodeps = 0}, d \in 1..MaxNodeps}

GlobalSet == GlobalsWith(MaxExtraFlags)

TargetLists(op) ==
    IF op = "Upgrade" THEN SeqsUpTo(PkgFiles, MaxTargets)
    ELSE SeqsUpTo(Names, MaxTargets)

SyncFlagSet ==
    [refresh: BOOLEAN, upgrade: BOOLEAN, search: BOOLEAN, info: BOOLEAN,
     clean_cache: 0..2]

\* -Q sub-flags: parse_args rejects every command with two of them set
QueryFlagSet ==
    {[QueryFlagsDefault EXCEPT ![f] = TRUE] :
        f \in {"info", "search", "list_files", "manual", "owns", "explicit",
               "reverse_deps"}}
    \cup {QueryFlagsDefault}

RemoveFlagSet == [recursive: BOOLEAN, nosave: BOOLEAN]

HelpCommand ==
    [op |-> "Help", sync |-> SyncFlagsDefault, query |-> QueryFlagsDefault,
     remove |-> RemoveFlagsDefault, targets |-> <<>>,
     global |-> GlobalFlagsDefault]

\* the accepted commands of operation o
CommandsOf(o) ==
    {p \in [op: {o},
            sync: (IF o = "Sync" THEN SyncFlagSet ELSE {SyncFlagsDefault}),
            query: (IF o = "Query" THEN QueryFlagSet ELSE {QueryFlagsDefault}),
            remove: (IF o = "Remove" THEN RemoveFlagSet
                     ELSE {RemoveFlagsDefault}),
            targets: TargetLists(o),
            global: GlobalSet] :
        Validate(p) = "ok"}

Commands ==
    UNION {CommandsOf(o) : o \in Operation \ {"Help"}} \cup {HelpCommand}

----------------------------------------------------------------------------
(* Pure functions of the source                                            *)

\* an emit_safety_warnings that knows the dependency warning only
emit_safety_warnings_nodeps_only(g) ==
    IF g.nodeps > 0 THEN <<"warn_nodeps">> ELSE <<>>

\* emit_safety_warnings: the warnings printed, in order
emit_safety_warnings(g) ==
    IF g.strict THEN <<>>
    ELSE (IF g.nodeps > 0 THEN <<"warn_nodeps">> ELSE <<>>)
         \o (IF g.noscriptlet THEN <<"warn_noscriptlet">> ELSE <<>>)
         \o (IF g.overwrite # <<>> THEN <<"warn_overwrite">> ELSE <<>>)

\* variant: the lock file is not looked at
ensure_db_unlocked_skipped(lock) == "ok"

\* ensure_db_unlocked, given whether <db_path>/db.lck exists
ensure_db_unlocked(lock) ==
    IF lock THEN "database is locked" ELSE "ok"

\* the result of one Path::exists() call
Exists(b) == IF b THEN "present" ELSE "missing"

\* what preflight_transaction sees of the disk w: each exists() call is made
\* only if the checks before it passed
preflight_reads(w) ==
    LET pubring_ok == w.gpg_dir /\ (w.pubring_kbx \/ w.pubring_gpg)
        keyring_read == pubring_ok /\ w.trustdb
    IN  [gpg_dir |-> Exists(w.gpg_dir),
         pubring_kbx |-> IF w.gpg_dir THEN Exists(w.pubring_kbx) ELSE "unread",
         pubring_gpg |-> IF w.gpg_dir /\ ~w.pubring_kbx
                         THEN Exists(w.pubring_gpg) ELSE "unread",
         trustdb |-> IF pubring_ok THEN Exists(w.trustdb) ELSE "unread",
         distro |-> IF keyring_read THEN w.distro ELSE "unread",
         arch_keyring |-> IF keyring_read THEN Exists(w.arch_keyring)
                          ELSE "unread",
         cachyos_keyring |-> IF keyring_read /\ w.arch_keyring
                                /\ w.distro = "cachyos"
                             THEN Exists(w.cachyos_keyring) ELSE "unread"]

\* everything preflight_transaction may see
FsReads == {preflight_reads(w) : w \in FsStates}

\* variant: the trustdb check is left out
preflight_keyring_without_trustdb(f) ==
    IF f.gpg_dir = "missing" THEN "keyring directory missing"
    ELSE IF f.pubring_kbx = "missing" /\ f.pubring_gpg = "missing"
    THEN "no keyring public keyring file"
    ELSE IF f.arch_keyring = "missing"
    THEN "archlinux-keyring is not installed"
    ELSE IF f.distro = "cachyos" /\ f.cachyos_keyring = "missing"
    THEN "cachyos-keyring is not installed"
    ELSE "ok"

\* the keyring checks of preflight_transaction, in the order of the source
preflight_keyring(f) ==
    IF f.gpg_dir = "missing" THEN "keyring directory missing"
    ELSE IF f.pubring_kbx = "missing" /\ f.pubring_gpg = "missing"
    THEN "no keyring public keyring file"
    ELSE IF f.trustdb = "missing" THEN "keyring trustdb missing"
    ELSE IF f.arch_keyring = "missing"
    THEN "archlinux-keyring is not installed"
    ELSE IF f.distro = "cachyos" /\ f.cachyos_keyring = "missing"
    THEN "cachyos-keyring is not installed"
    ELSE "ok"

\* variant: the loop does not stop at the first match
RECURSIVE find_sync_pkg_last(_, _, _)
find_sync_pkg_last(dbs, name, i) ==
    IF i > Len(dbs)
    THEN [ok |-> FALSE, err |-> "error: target not found: " \o name]
    ELSE IF find_sync_pkg_last(dbs, name, i + 1).ok
    THEN find_sync_pkg_last(dbs, name, i + 1)
    ELSE IF name \in dbs[i] THEN [ok |-> TRUE, db |-> i, name |-> name]
    ELSE [ok |-> FALSE, err |-> "error: target not found: " \o name]

\* find_sync_pkg: the loop over handle.syncdbs() from position i on; Ok is
\* the package, named by the database it was found in
RECURSIVE find_sync_pkg_from(_, _, _)
find_sync_pkg_from(dbs, name, i) ==
    IF i > Len(dbs)
    THEN [ok |-> FALSE, err |-> "error: target not found: " \o name]
    ELSE IF name \in dbs[i] THEN [ok |-> TRUE, db |-> i, name |-> name]
    ELSE find_sync_pkg_from(dbs, name, i + 1)

find_sync_pkg(dbs, name) == find_sync_pkg_from(dbs, name, 1)

\* find_local_pkg: whether the local database holds name
find_local_pkg(db, name) == name \in db

\* variant: a sync target that is in no repository is let through
target_resolves_sync_always(f, name) ==
    CASE f = "install_local" -> name \in LoadableFiles
      [] f = "remove_packages" -> find_local_pkg(LocalDb, name)
      [] OTHER -> TRUE

\* whether resolving one target of operation f succeeds
target_resolves(f, name) ==
    CASE f = "install_local" -> name \in LoadableFiles
      [] f = "remove_packages" -> find_local_pkg(LocalDb, name)
      [] OTHER -> find_sync_pkg(SyncDbs, name).ok

\* the error a target that does not resolve makes the operation return
target_error(f, name) ==
    CASE f = "install_local" -> "failed to load package"
      [] f = "remove_packages" -> "could not find or read package"
      [] OTHER -> find_sync_pkg(SyncDbs, name).err

\* the TransFlag set each operation passes to trans_init
TransFlags(f, p) ==
    (IF f \in {"install_packages", "sync_install"} /\ p.global.needed
     THEN {"NEEDED"} ELSE {})
    \cup (IF f = "remove_packages" /\ p.remove.recursive
          THEN {"RECURSE", "UNNEEDED"} ELSE {})
    \cup (IF f = "remove_packages" /\ p.remove.nosave
          THEN {"NO_SAVE"} ELSE {})
    \cup (IF p.global.nodeps > 0 THEN {"NO_DEPS"} ELSE {})
    \cup (IF p.global.nodeps > 1 THEN {"NO_DEP_VERSION"} ELSE {})
    \cup (IF f # "remove_packages" /\ p.global.noscriptlet
          THEN {"NO_SCRIPTLET"} ELSE {})

\* the operation name each function writes to the ledger
HistoryOp(f) ==
    CASE f = "install_packages" -> "install"
      [] f = "install_local" -> "install-local"
      [] f = "remove_packages" -> "remove"
      [] OTHER -> "sync"

\* the summary text recorded with each status
HistorySummary(f, status) ==
    CASE status = "noop" ->
            (IF f = "remove_packages" THEN "no packages to remove"
             ELSE IF f = "sync_install" THEN "no package changes"
             ELSE "no packages to install")
      [] status = "cancelled" -> "user cancelled transaction"
      [] status = "dry-run" -> "commit skipped by --test"
      [] status = "success" -> "transaction committed"
      [] OTHER -> "transaction commit failed"

\* the target list a function records: install_local records package names
HistoryTargets(f, p, loaded) ==
    IF f = "install_local" THEN loaded ELSE p.targets

\* a record that writes its entry twice
record_appending_twice(l, operation, status, targets, summary, write_ok) ==
    IF write_ok
    THEN l \o [i \in 1..2 |->
                 [op |-> operation, status |-> status,
                  targets |-> (IF targets = <<>> THEN <<"-">> ELSE targets),
                  summary |-> summary]]
    ELSE l

\* history::record: appends one entry unless the write fails
record(l, operation, status, targets, summary, write_ok) ==
    IF write_ok
    THEN Append(l, [op |-> operation, status |-> status,
                    targets |-> (IF targets = <<>> THEN <<"-">> ELSE targets),
                    summary |-> summary])
    ELSE l

\* a release that throws a closed session back to its first state
trans_release_resetting(s) ==
    IF s = "Closed" THEN "Uninitialized"
    ELSE IF s = "Uninitialized" THEN s ELSE "Closed"

\* trans_release: closes an open transaction; an error, ignored by every
\* caller, when none is open
trans_release(s) ==
    IF s \in {"Uninitialized", "Closed"} THEN s ELSE "Closed"

\* variant: the emptiness test never succeeds
changeset_is_empty_negative(n) == n < 0

\* to_install.is_empty() / to_remove.is_empty() / to_add.is_empty()
changeset_is_empty(n) == n = 0

\* variant: the prompt is shown under --test as well
needs_confirmation_ignoring_test(g) == ~g.noconfirm

\* the condition under which the prompt is shown
needs_confirmation(g) == ~g.test /\ ~g.noconfirm

\* the white space that str::trim removes at both ends of a line
WhiteSpace == {" ", "\t", "\n", "\r"}

\* str::trim
RECURSIVE trim(_)
trim(s) ==
    IF s = "" THEN ""
    ELSE IF CharAt(s, 1) \in WhiteSpace THEN trim(SubSeq(s, 2, Len(s)))
    ELSE IF CharAt(s, Len(s)) \in WhiteSpace
    THEN trim(SubSeq(s, 1, Len(s) - 1))
    ELSE s

\* a confirm_action that compares the line as it was read, less its line end
confirm_action_exact(input) ==
    input \in {"", "\n", "y\n", "yes\n", "y", "yes"}

\* confirm_action: whether the line read from the standard input ("" at
\* the end of input) counts as yes
confirm_action(input) ==
    LET response == to_lowercase(trim(input))
    IN  response = "" \/ response \in {"y", "yes"}

\* apply_install_reasons: the install reasons set, as (package, reason)
apply_install_reasons(g, targets) ==
    IF ~g.asdeps /\ ~g.asexplicit THEN {}
    ELSE {<<targets[i], IF g.asdeps THEN "Depend" ELSE "Explicit">> :
             i \in 1..Len(targets)}

\* clean_cache: whether a cache entry is deleted at the given level
cache_remove(kind, level) ==
    IF kind = "not_a_package" THEN FALSE
    ELSE IF level >= 2 THEN TRUE
    ELSE kind \in {"outdated", "orphan"}

\* handle.architectures(): the architectures the configuration allows
Architectures == <<"x86_64">>

\* pkg.arch() of a package in the add list
PkgArchs == {None, Some("any"), Some("x86_64"), Some("aarch64")}

\* the errors trans_prepare may return
PrepareErrors ==
    {"could not satisfy dependencies", "package architecture is not valid"}

\* the add list of the transaction when prepare runs, as (name, arch) pairs:
\* the packages a full upgrade selects, then the targets added; a removal
\* adds nothing.  Every target names the same package, so one arch is drawn
trans_add(f, p, loaded, arch) ==
    IF f = "remove_packages" THEN <<>>
    ELSE (IF f = "sync_install" /\ p.sync.upgrade
          THEN <<[name |-> "glibc", arch |-> Some("x86_64")]>> ELSE <<>>)
         \o [i \in 1..Len(HistoryTargets(f, p, loaded)) |->
                [name |-> HistoryTargets(f, p, loaded)[i], arch |-> arch]]

\* pkg.arch().unwrap_or("unknown")
arch_or_unknown(a) == IF a = None THEN "unknown" ELSE a[1]

\* trans_prepare_or_release: whether a package of the add list is reported
is_offender(pkg) ==
    /\ arch_or_unknown(pkg.arch) # "any"
    /\ \A i \in 1..Len(Architectures) :
          Architectures[i] # arch_or_unknown(pkg.arch)

\* trans_prepare_or_release: the "name (arch)" texts of the offenders, in
\* the order of the add list
RECURSIVE offenders(_)
offenders(pkgs) ==
    IF pkgs = <<>> THEN <<>>
    ELSE (IF is_offender(pkgs[1])
          THEN <<pkgs[1].name \o " (" \o arch_or_unknown(pkgs[1].arch)
                   \o ")">>
          ELSE <<>>) \o offenders(Tail(pkgs))

\* trans_prepare_or_release: the error returned for the libalpm message msg
\* when handle.trans_add() yields pkgs
prepare_error(msg, pkgs) ==
    IF contains(to_lowercase(msg), "architecture") /\ offenders(pkgs) # <<>>
    THEN msg \o "\nAllowed architectures: " \o join(Architectures, ", ")
             \o "\nInvalid package architectures: "
             \o join(offenders(pkgs), ", ")
    ELSE msg

\* the sizes the inspected list may have after a successful prepare
PrepareOutcomes == 0..MaxPkgs

\* the errors trans_commit may return
CommitErrors == {"failed to commit transaction", "conflicting files"}

\* lines the user may type at the prompt, as read_line returns them ("" is
\* the end of input)
Responses == {"", "\n", "y\n", "YES\n", "n\n", "no\n", "q\n"}

----------------------------------------------------------------------------
(* The run                                                                 *)

\* parse_args is not running
NoScan ==
    [args |-> <<>>, i |-> 0, op |-> None, flag_chars |-> <<>>,
     targets |-> <<>>, in_options |-> TRUE, global |-> GlobalFlagsDefault,
     pc |-> "none",
     outcome |-> [status |-> "none", err |-> "", cmd |-> HelpCommand]]

\* find_sync_pkg is not being exercised
NoLookup == [dbs |-> <<>>, name |-> "", result |-> <<>>]

\* history.rs is not being exercised on its own
NoHistory ==
    [exists |-> FALSE, content |-> "", now |-> 1, until |-> 1, pids |-> {1},
     left |-> 0, calls |-> {}, written |-> <<>>, entries |-> <<>>, read |-> FALSE, args |-> <<>>,
     shown |-> <<>>, result |-> "none", procs |-> <<>>]

\* the progress callbacks have not been called
NoProgress ==
    [last_percent |-> {}, completed |-> {}, last_key |-> None, log |-> <<>>]

\* nothing is known of what the user will type
NoPrompt == [line |-> None]

\* no prepare has failed
NoPrepareFailure == [msg |-> "", pkgs |-> <<>>]

Init ==
    /\ scan = NoScan
    /\ lookup = NoLookup
    /\ progress = NoProgress
    /\ prompt = NoPrompt
    /\ hist = NoHistory
    /\ prepare_failure = NoPrepareFailure
    /\ parsed \in Commands
    /\ isRoot \in BOOLEAN
    /\ dbLock \in BOOLEAN
    /\ fs = FsNotRead
    /\ cache = CacheDir
    /\ pc = "main"
    /\ fn = "none"
    /\ handle = "none"
    /\ session = "Uninitialized"
    /\ trans_flags = {}
    /\ idx = 0
    /\ names = <<>>
    /\ changeset = 0
    /\ commit = "none"
    /\ reasons = {}
    /\ result = "running"
    /\ exit_code = -1
    /\ ledger = <<>>
    /\ trace = <<>>

\* a main that ends with status 0 whatever the handler returned
exit_status_always_zero(r) == 0

\* main: exit status 1 after print_runtime_error when the handler returned
\* an error, 0 otherwise
exit_status(r) == IF r = "ok" THEN 0 ELSE 1

\* a handler returns r to main, and main ends the process
Return(r) == result' = r /\ exit_code' = exit_status(r) /\ pc' = "done"

\* the run goes on at position p
Goto(p) == pc' = p /\ UNCHANGED <<result, exit_code>>

\* std::process::exit(1) inside a handler
ExitNotRoot == result' = "exited" /\ exit_code' = 1 /\ pc' = "done"

Log(events) == trace' = trace \o events

\* main, after parse_args succeeded: warnings, then dispatch on the operation
Main ==
    /\ pc = "main"
    /\ IF parsed.op = "Help"
       THEN /\ Log(emit_safety_warnings(parsed.global) \o <<"print_usage">>)
            /\ Return("ok")
       ELSE /\ Log(emit_safety_warnings(parsed.global))
            /\ Goto(CASE parsed.op = "Sync" -> "handle_sync"
                      [] parsed.op = "Query" -> "handle_query"
                      [] parsed.op = "Remove" -> "handle_remove"
                      [] parsed.op = "Upgrade" -> "handle_upgrade"
                      [] parsed.op = "Doctor" -> "handle_doctor"
                      [] OTHER -> "handle_history")
    /\ UNCHANGED <<units, prepare_failure, parsed, isRoot,
                   dbLock, fs, cache, fn, handle, session,
                   trans_flags, idx, names, changeset, commit, reasons,
                   ledger>>

\* handle_sync up to the call of the operation it selects
HandleSync ==
    /\ pc = "handle_sync"
    /\ IF ~parsed.sync.search /\ ~parsed.sync.info /\ ~isRoot
       THEN ExitNotRoot /\ UNCHANGED <<fn, trace>>
       ELSE IF parsed.sync.search \/ parsed.sync.info
       THEN /\ \E r \in {"ok", "search failed"} : Return(r)
            /\ Log(<<"search_repos">>)
            /\ UNCHANGED fn
       ELSE IF parsed.sync.clean_cache > 0
       THEN /\ Goto("ensure_db_unlocked")
            /\ fn' = "clean_cache"
            /\ UNCHANGED trace
       ELSE /\ Goto("preflight")
            /\ fn' = IF parsed.sync.refresh \/ parsed.sync.upgrade
                        \/ parsed.targets = <<>>
                     THEN "sync_install" ELSE "install_packages"
            /\ UNCHANGED trace
    /\ UNCHANGED <<units, prepare_failure, parsed, isRoot,
                   dbLock, fs, cache, handle, session,
                   trans_flags, idx, names, changeset, commit, reasons,
                   ledger>>

\* a handle_query that enters the transaction path of an installation
HandleQueryThroughPreflight ==
    /\ pc = "handle_query"
    /\ Goto("preflight")
    /\ fn' = "install_packages"
    /\ UNCHANGED <<units, prepare_failure, parsed, isRoot,
                   dbLock, fs, cache, handle, session,
                   trans_flags, idx, names, changeset, commit, reasons,
                   ledger, trace>>

\* handle_query: every mode only reads the databases
HandleQuery ==
    /\ pc = "handle_query"
    /\ \E r \in {"ok", "query failed"} : Return(r)
    /\ Log(<<"query">>)
    /\ UNCHANGED <<units, prepare_failure, parsed, isRoot,
                   dbLock, fs, cache, fn, handle, session,
                   trans_flags, idx, names, changeset, commit, reasons,
                   ledger>>

\* handle_remove up to the call of remove_packages
HandleRemove ==
    /\ pc = "handle_remove"
    /\ IF ~isRoot
       THEN ExitNotRoot /\ UNCHANGED fn
       ELSE Goto("ensure_db_unlocked") /\ fn' = "remove_packages"
    /\ UNCHANGED <<units, prepare_failure, parsed, isRoot,
                   dbLock, fs, cache, handle, session,
                   trans_flags, idx, names, changeset, commit, reasons,
                   ledger, trace>>

\* handle_upgrade up to the call of install_local
HandleUpgrade ==
    /\ pc = "handle_upgrade"
    /\ IF ~isRoot
       THEN ExitNotRoot /\ UNCHANGED fn
       ELSE Goto("preflight") /\ fn' = "install_local"
    /\ UNCHANGED <<units, prepare_failure, parsed, isRoot,
                   dbLock, fs, cache, handle, session,
                   trans_flags, idx, names, changeset, commit, reasons,
                   ledger, trace>>

\* handle_doctor: doctor::run performs read-only health checks
HandleDoctor ==
    /\ pc = "handle_doctor"
    /\ \E r \in {"ok", "doctor failed"} : Return(r)
    /\ Log(<<"doctor">>)
    /\ UNCHANGED <<units, prepare_failure, parsed, isRoot,
                   dbLock, fs, cache, fn, handle, session,
                   trans_flags, idx, names, changeset, commit, reasons,
                   ledger>>

\* handle_history: history::show reads the ledger
HandleHistory ==
    /\ pc = "handle_history"
    /\ \E r \in {"ok", "history read failed"} : Return(r)
    /\ Log(<<"history_show">>)
    /\ UNCHANGED <<units, prepare_failure, parsed, isRoot,
                   dbLock, fs, cache, fn, handle, session,
                   trans_flags, idx, names, changeset, commit, reasons,
                   ledger>>

\* ensure_db_unlocked as handle_sync (-Sc) and handle_remove call it
EnsureDbUnlocked ==
    /\ pc = "ensure_db_unlocked"
    /\ \E config_ok \in BOOLEAN :
          IF ~config_ok THEN Return("failed to read pacman.conf")
          ELSE IF ensure_db_unlocked(dbLock) # "ok"
          THEN Return(ensure_db_unlocked(dbLock))
          ELSE Goto(IF fn = "clean_cache" THEN "clean_cache"
                    ELSE "init_handle")
    /\ Log(<<"ensure_db_unlocked">>)
    /\ UNCHANGED <<units, prepare_failure, parsed, isRoot,
                   dbLock, fs, cache, fn, handle, session,
                   trans_flags, idx, names, changeset, commit, reasons,
                   ledger>>

\* preflight_transaction: the lock check, then the keyring checks
PreflightTransaction ==
    /\ pc = "preflight"
    /\ \/ /\ Return("failed to read pacman.conf")
          /\ Log(<<"ensure_db_unlocked">>)
          /\ fs' = fs
       \/ /\ ensure_db_unlocked(dbLock) # "ok"
          /\ Return(ensure_db_unlocked(dbLock))
          /\ Log(<<"ensure_db_unlocked">>)
          /\ fs' = fs
       \/ /\ ensure_db_unlocked(dbLock) = "ok"
          /\ \E f \in FsReads :
                /\ fs' = f
                /\ IF preflight_keyring(f) # "ok"
                   THEN Return(preflight_keyring(f))
                   ELSE Goto("init_handle")
          /\ Log(<<"ensure_db_unlocked", "keyring_check">>)
    /\ UNCHANGED <<units, prepare_failure, parsed, isRoot,
                   dbLock, cache, fn, handle, session,
                   trans_flags, idx, names, changeset, commit, reasons,
                   ledger>>

\* init_handle at the head of each operation; install_local then reads
\* the local-file signature level from the configuration
InitHandle ==
    /\ pc = "init_handle"
    /\ \E r \in {"ok", "Failed to initialize libalpm handle",
                 "failed to read pacman.conf"} :
          IF r = "ok"
          THEN /\ handle' = "live"
               /\ Goto(CASE fn = "remove_packages" -> "warn_remove_breakage"
                         [] fn = "sync_install" -> "refresh"
                         [] OTHER -> "trans_init")
          ELSE IF r = "failed to read pacman.conf"
          THEN \* effective_config fails in init_handle, or for
               \* install_local in local_file_siglevel after the handle exists
               /\ \E made \in (IF fn = "install_local" THEN BOOLEAN
                               ELSE {FALSE}) :
                     handle' = IF made THEN "live" ELSE handle
               /\ Return(r)
          ELSE handle' = handle /\ Return(r)
    /\ Log(<<"init_handle">>)
    /\ UNCHANGED <<units, prepare_failure, parsed, isRoot,
                   dbLock, fs, cache, fn, session,
                   trans_flags, idx, names, changeset, commit, reasons,
                   ledger>>

\* warn_remove_breakage: without -s every target must be in the local
\* database before the transaction is opened
WarnRemoveBreakage ==
    /\ pc = "warn_remove_breakage"
    /\ IF ~parsed.remove.recursive
          /\ \E i \in 1..Len(parsed.targets) :
                ~find_local_pkg(LocalDb, parsed.targets[i])
       THEN Return("error: package was not found")
       ELSE Goto("trans_init")
    /\ UNCHANGED <<units, prepare_failure, parsed, isRoot,
                   dbLock, fs, cache, fn, handle, session,
                   trans_flags, idx, names, changeset, commit, reasons,
                   ledger, trace>>

\* variant: -y updates the databases under --test as well
refresh_step_ignoring_test(p) ==
    IF ~p.sync.refresh THEN <<>> ELSE <<"db_update">>

\* sync_install: what the refresh step does
refresh_step(p) ==
    IF ~p.sync.refresh THEN <<>>
    ELSE IF p.global.test THEN <<"print_skip_update">>
    ELSE <<"db_update">>

\* sync_install: the refresh step and the early return of a refresh-only run
Refresh ==
    /\ pc = "refresh"
    /\ \E update_ok \in BOOLEAN :
          IF refresh_step(parsed) = <<"db_update">> /\ ~update_ok
          THEN Log(<<"db_update">>) /\ Return("failed to update databases")
          ELSE /\ Log(refresh_step(parsed))
               /\ IF ~parsed.sync.upgrade /\ parsed.targets = <<>>
                  THEN Return("ok")
                  ELSE Goto("trans_init")
    /\ UNCHANGED <<units, prepare_failure, parsed, isRoot,
                   dbLock, fs, cache, fn, handle, session,
                   trans_flags, idx, names, changeset, commit, reasons,
                   ledger>>

\* where an operation continues once i targets are added
AfterPopulate(i) ==
    IF i < Len(parsed.targets) THEN "populate" ELSE "prepare"

\* handle.trans_init(flags)?
TransInit ==
    /\ pc = "trans_init"
    /\ trans_flags' = TransFlags(fn, parsed)
    /\ Log(<<"trans_init">>)
    /\ \E ok \in BOOLEAN :
          IF ok
          THEN /\ session' = "Open"
               /\ Goto(IF fn = "sync_install" /\ parsed.sync.upgrade
                       THEN "sysupgrade" ELSE AfterPopulate(0))
          ELSE session' = session /\ Return("failed to init transaction")
    /\ UNCHANGED <<units, prepare_failure, parsed, isRoot,
                   dbLock, fs, cache, fn, handle, idx, names,
                   changeset, commit, reasons, ledger>>

\* sync_install: handle.sync_sysupgrade(false)?
Sysupgrade ==
    /\ pc = "sysupgrade"
    /\ Log(<<"sync_sysupgrade">>)
    /\ \E ok \in BOOLEAN :
          IF ok THEN Goto(AfterPopulate(0))
          ELSE Return("failed to prepare sysupgrade")
    /\ UNCHANGED <<units, prepare_failure, parsed, isRoot,
                   dbLock, fs, cache, fn, handle, session,
                   trans_flags, idx, names, changeset, commit, reasons,
                   ledger>>

\* one iteration of the populate loop: resolve the target, add it
AddTarget ==
    /\ pc = "populate"
    /\ idx < Len(parsed.targets)
    /\ LET name == parsed.targets[idx + 1] IN
       IF ~target_resolves(fn, name)
       THEN /\ Log(<<"find_pkg">>)
            /\ Return(target_error(fn, name))
            /\ UNCHANGED <<idx, names>>
       ELSE \E add_ok \in BOOLEAN :
               /\ Log(<<"find_pkg", "trans_add_pkg">>)
               /\ names' = IF fn = "install_local"
                           THEN Append(names, PkgNameOf(name)) ELSE names
               /\ IF add_ok
                  THEN idx' = idx + 1 /\ Goto(AfterPopulate(idx + 1))
                  ELSE idx' = idx /\ Return("failed to add target")
    /\ UNCHANGED <<units, prepare_failure, parsed, isRoot,
                   dbLock, fs, cache, fn, handle, session,
                   trans_flags, changeset, commit, reasons, ledger>>

\* trans_prepare_or_release: on failure the session is released before the
\* error is returned
TransPrepareOrRelease ==
    /\ pc = "prepare"
    /\ \/ \E n \in PrepareOutcomes :
             /\ prepare_failure' = prepare_failure
             /\ session' = "Prepared"
             /\ changeset' = n
             /\ Log(<<"trans_prepare", "prepare_ok">>)
             /\ Goto("summarize")
       \/ \E msg \in PrepareErrors, arch \in PkgArchs, kept \in BOOLEAN :
             \* the add list is read after trans_release: it is still
             \* there (kept) or gone with the released transaction
             /\ session' = trans_release(session)
             /\ Log(<<"trans_prepare", "prepare_failed", "trans_release">>)
             /\ prepare_failure' =
                   [msg |-> msg, pkgs |-> trans_add(fn, parsed, names, arch)]
             /\ Return(prepare_error(msg,
                    IF kept THEN trans_add(fn, parsed, names, arch)
                    ELSE <<>>))
             /\ UNCHANGED changeset
    /\ UNCHANGED <<units, parsed, isRoot,
                   dbLock, fs, cache, fn, handle,
                   trans_flags, idx, names, commit, reasons, ledger>>

\* history::record called by the running operation with the given status
Record(status, write_ok) ==
    ledger' = record(ledger, HistoryOp(fn), status,
                     HistoryTargets(fn, parsed, names),
                     HistorySummary(fn, status), write_ok)

\* a caller that hands the error of history::record on
record_error_returned(r, write_ok) ==
    IF write_ok THEN r ELSE "failed to write history"

\* let _ = history::record(..): the caller returns r whatever record returned
record_result_dropped(r, write_ok) == r

\* the history entry, whose write may fail, and then the return of r
RecordAndReturn(status, r) ==
    \E write_ok \in BOOLEAN :
       /\ Record(status, write_ok)
       /\ Return(record_result_dropped(r, write_ok))

\* variant: the empty-changeset branch returns with the session open
NothingToDoWithoutRelease ==
    /\ session' = session
    /\ Log(<<"print_nothing_to_do", "record:noop">>)
    /\ RecordAndReturn("noop", "ok")

\* the body of the empty-changeset branch
NothingToDo ==
    /\ session' = trans_release(session)
    /\ Log(<<"trans_release", "print_nothing_to_do", "record:noop">>)
    /\ RecordAndReturn("noop", "ok")

\* variant: a declined prompt is reported as an error
CancelledAsError ==
    /\ session' = trans_release(session)
    /\ Log(<<"confirm_prompt", "answer_no", "trans_release",
             "record:cancelled">>)
    /\ RecordAndReturn("cancelled", "transaction cancelled")

\* the body of the declined-confirmation branch
Cancelled ==
    /\ session' = trans_release(session)
    /\ Log(<<"confirm_prompt", "answer_no", "trans_release",
             "record:cancelled">>)
    /\ RecordAndReturn("cancelled", "ok")

\* the body of the --test branch
SkipCommit ==
    /\ session' = trans_release(session)
    /\ Log(<<"print_skip_commit", "trans_release", "record:dry-run">>)
    /\ RecordAndReturn("dry-run", "ok")

\* the empty-changeset check and the transaction summary
Summarize ==
    /\ pc = "summarize"
    /\ IF changeset_is_empty(changeset)
       THEN NothingToDo
       ELSE /\ Log(<<"print_summary">>)
            /\ Goto("confirm")
            /\ UNCHANGED <<session, ledger>>
    /\ UNCHANGED <<units, prepare_failure, parsed, isRoot,
                   dbLock, fs, cache, fn, handle,
                   trans_flags, idx, names, changeset, commit, reasons>>

\* the lines read_line may return: the one prompt holds when it is known
Stdin == IF prompt.line = None THEN Responses ELSE {prompt.line[1]}

\* the confirmation prompt and the cancelled path
Confirm ==
    /\ pc = "confirm"
    /\ IF needs_confirmation(parsed.global)
       THEN \E input \in Stdin :
               IF ~confirm_action(input)
               THEN Cancelled
               ELSE /\ Log(<<"confirm_prompt", "answer_yes">>)
                    /\ Goto("dry_run")
                    /\ UNCHANGED <<session, ledger>>
       ELSE /\ Goto("dry_run")
            /\ UNCHANGED <<session, ledger, trace>>
    /\ UNCHANGED <<units, prepare_failure, parsed, isRoot,
                   dbLock, fs, cache, fn, handle,
                   trans_flags, idx, names, changeset, commit, reasons>>

\* the --test path: commit is skipped
DryRun ==
    /\ pc = "dry_run"
    /\ IF parsed.global.test
       THEN SkipCommit
       ELSE /\ Goto("commit")
            /\ UNCHANGED <<session, ledger, trace>>
    /\ UNCHANGED <<units, prepare_failure, parsed, isRoot,
                   dbLock, fs, cache, fn, handle,
                   trans_flags, idx, names, changeset, commit, reasons>>

\* let commit = handle.trans_commit()
TransCommit ==
    /\ pc = "commit"
    /\ \E r \in {"ok"} \cup CommitErrors :
          /\ commit' = r
          /\ session' = IF r = "ok" THEN "Committed" ELSE "Failed"
    /\ Log(<<"trans_commit">>)
    /\ Goto("release")
    /\ UNCHANGED <<units, prepare_failure, parsed, isRoot,
                   dbLock, fs, cache, fn, handle,
                   trans_flags, idx, names, changeset, reasons, ledger>>

\* variant: the release after the commit is left out
ReleaseAfterCommitOmitted ==
    /\ pc = "release"
    /\ Goto("record")
    /\ UNCHANGED <<units, prepare_failure, parsed, isRoot,
                   dbLock, fs, cache, fn, handle, session,
                   trans_flags, idx, names, changeset, commit, reasons,
                   ledger, trace>>

\* let _ = handle.trans_release(), right after the commit call
ReleaseAfterCommit ==
    /\ pc = "release"
    /\ session' = trans_release(session)
    /\ Log(<<"trans_release">>)
    /\ Goto("record")
    /\ UNCHANGED <<units, prepare_failure, parsed, isRoot,
                   dbLock, fs, cache, fn, handle,
                   trans_flags, idx, names, changeset, commit, reasons,
                   ledger>>

\* variant: every commit is recorded as a success
commit_status_always_success(c) == "success"

\* the status recorded for a commit result
commit_status(c) == IF c = "ok" THEN "success" ELSE "failed"

\* after the release: install reasons, the history entry, the result
RecordOutcome ==
    /\ pc = "record"
    /\ reasons' = IF commit_status(commit) = "success"
                     /\ fn # "remove_packages"
                  THEN apply_install_reasons(parsed.global,
                           HistoryTargets(fn, parsed, names))
                  ELSE reasons
    /\ Log(IF commit_status(commit) = "success" THEN <<"record:success">>
           ELSE <<"record:failed">>)
    /\ RecordAndReturn(commit_status(commit), commit)
    /\ UNCHANGED <<units, prepare_failure, parsed, isRoot,
                   dbLock, fs, cache, fn, handle, session,
                   trans_flags, idx, names, changeset, commit>>

\* a clean_cache that deletes nothing under --test
CleanCacheSparingUnderTest ==
    /\ pc = "clean_cache"
    /\ \E r \in {"ok", "no cache directory", "failed to read pacman.conf",
                 "Failed to initialize libalpm handle"} :
          IF r = "ok"
          THEN /\ handle' = "live"
               /\ cache' = IF parsed.global.test THEN cache
                           ELSE {k \in cache :
                                   ~cache_remove(k, parsed.sync.clean_cache)}
               /\ Log(<<"init_handle", "remove_files">>)
               /\ Return("ok")
          ELSE IF r = "no cache directory"
          THEN /\ Return("ok")
               /\ UNCHANGED <<handle, cache, trace>>
          ELSE /\ Return(r)
               /\ UNCHANGED <<handle, cache, trace>>
    /\ UNCHANGED <<units, prepare_failure, parsed, isRoot,
                   dbLock, fs, fn, session, trans_flags,
                   idx, names, changeset, commit, reasons, ledger>>

\* clean_cache: delete the cache entries the level selects
CleanCache ==
    /\ pc = "clean_cache"
    /\ \E r \in {"ok", "no cache directory", "failed to read pacman.conf",
                 "Failed to initialize libalpm handle"} :
          IF r = "ok"
          THEN /\ handle' = "live"
               /\ cache' = {k \in cache :
                              ~cache_remove(k, parsed.sync.clean_cache)}
               /\ Log(<<"init_handle", "remove_files">>)
               /\ Return("ok")
          ELSE IF r = "no cache directory"
          THEN /\ Return("ok")
               /\ UNCHANGED <<handle, cache, trace>>
          ELSE /\ Return(r)
               /\ UNCHANGED <<handle, cache, trace>>
    /\ UNCHANGED <<units, prepare_failure, parsed, isRoot,
                   dbLock, fs, fn, session, trans_flags,
                   idx, names, changeset, commit, reasons, ledger>>

Next ==
    \/ Main
    \/ HandleSync
    \/ HandleQuery
    \/ HandleRemove
    \/ HandleUpgrade
    \/ HandleDoctor
    \/ HandleHistory
    \/ EnsureDbUnlocked
    \/ PreflightTransaction
    \/ InitHandle
    \/ WarnRemoveBreakage
    \/ Refresh
    \/ TransInit
    \/ Sysupgrade
    \/ AddTarget
    \/ TransPrepareOrRelease
    \/ Summarize
    \/ Confirm
    \/ DryRun
    \/ TransCommit
    \/ ReleaseAfterCommit
    \/ RecordOutcome
    \/ CleanCache

Spec == Init /\ [][Next]_vars

----------------------------------------------------------------------------
(* find_sync_pkg on its own, over every registration order                 *)

\* package names a repository may hold or a caller may ask for
LookupNames == Names \cup {"vim"}

\* no process run is under way
NoRun ==
    /\ prepare_failure = NoPrepareFailure
    /\ parsed = HelpCommand
    /\ isRoot = FALSE
    /\ dbLock = FALSE
    /\ fs = FsNotRead
    /\ cache = CacheDir
    /\ pc = "none"
    /\ fn = "none"
    /\ handle = "none"
    /\ session = "Uninitialized"
    /\ trans_flags = {}
    /\ idx = 0
    /\ names = <<>>
    /\ changeset = 0
    /\ commit = "none"
    /\ reasons = {}
    /\ result = "none"
    /\ exit_code = -1
    /\ ledger = <<>>
    /\ trace = <<>>

\* the variables of a process run
run_vars ==
    <<prepare_failure, parsed, isRoot, dbLock, fs, cache, pc, fn, handle,
      session, trans_flags, idx, names, changeset, commit, reasons, result,
      exit_code, ledger, trace>>

LookupInit ==
    /\ NoRun
    /\ scan = NoScan
    /\ progress = NoProgress
    /\ prompt = NoPrompt
    /\ hist = NoHistory
    /\ lookup \in [dbs: SeqsUpTo(SUBSET LookupNames, MaxDbs),
                    name: LookupNames, result: {<<>>}]

\* one call find_sync_pkg(&handle, name) on a handle with lookup.dbs registered
Lookup ==
    /\ lookup.result = <<>>
    /\ lookup' = [lookup EXCEPT
                     !.result = <<find_sync_pkg(lookup.dbs, lookup.name)>>]
    /\ UNCHANGED <<scan, hist, progress, prompt, run_vars>>

LookupNext == Lookup

LookupSpec == LookupInit /\ [][LookupNext]_vars

----------------------------------------------------------------------------
(* The command line: main's first look at the arguments and parse_args,    *)
(* one step per token (main.rs)                                            *)

\* u8::saturating_add(1)
saturating_add(x) == IF x < 255 THEN x + 1 ELSE 255

\* str::split_once: the parts before and after the first c, or None
split_once(s, c) ==
    LET at == {k \in 1..Len(s) : CharAt(s, k) = c}
    IN  IF at = {} THEN None
        ELSE LET k == CHOOSE k \in at : \A j \in at : k <= j
             IN  Some(<<SubSeq(s, 1, k - 1), SubSeq(s, k + 1, Len(s))>>)

\* a set_operation under which the last selector wins
set_operation_last_wins(op, new_op) ==
    [ok |-> TRUE, op |-> Some(new_op), err |-> ""]

\* set_operation: the operation slot after selecting new_op, or the error
set_operation(op, new_op) ==
    IF op # None /\ op[1] # new_op
    THEN [ok |-> FALSE, op |-> op,
          err |-> "error: only one operation may be used at a time"]
    ELSE [ok |-> TRUE, op |-> IF op = None THEN Some(new_op) ELSE op,
          err |-> ""]

\* what main got from the command line: nothing yet
NoOutcome == [status |-> "none", err |-> "", cmd |-> HelpCommand]

\* the locals of parse_args on entry, for the arguments args (args[1] is the
\* program name, so the token the source calls args[i] is args[i + 1] here)
StartScan(args) ==
    [args |-> args, i |-> 1, op |-> None, flag_chars |-> <<>>,
     targets |-> <<>>, in_options |-> TRUE, global |-> GlobalFlagsDefault,
     pc |-> "main", outcome |-> NoOutcome]

\* return Err(msg)
Fail(s, msg) ==
    [s EXCEPT !.pc = "done",
              !.outcome = [status |-> "err", err |-> msg, cmd |-> HelpCommand]]

\* a return that hands back the options and targets scanned so far with
\* whatever command it returns
AcceptKeepingScanned(s, cmd) ==
    [s EXCEPT !.pc = "done",
              !.outcome = [status |-> "ok", err |-> "",
                           cmd |-> [cmd EXCEPT !.global = s.global,
                                               !.targets = s.targets]]]

\* return Ok(cmd)
Accept(s, cmd) ==
    [s EXCEPT !.pc = "done",
              !.outcome = [status |-> "ok", err |-> "", cmd |-> cmd]]

\* i += 1; continue
Advance(s) == [s EXCEPT !.i = @ + 1]

\* set_operation(&mut op, new_op)?; i += 1; continue
Select(s, new_op) ==
    LET r == set_operation(s.op, new_op)
    IN  IF r.ok THEN Advance([s EXCEPT !.op = r.op]) ELSE Fail(s, r.err)

\* value_opt.or_else(|| the following token, if there is one)
option_value(s, value_opt) ==
    IF value_opt # None THEN [i |-> s.i, value |-> value_opt]
    ELSE IF s.i + 1 < Len(s.args)
    THEN [i |-> s.i + 1, value |-> Some(s.args[s.i + 2])]
    ELSE [i |-> s.i, value |-> None]

\* a long option table with no default arm: an unknown name is skipped
long_option_lenient(s, arg) ==
    LET sp == split_once(arg, "=")
        key == IF sp # None THEN sp[1][1] ELSE arg
    IN  IF key = "--strict" THEN Advance([s EXCEPT !.global.strict = TRUE])
        ELSE Advance(s)

\* the arm of the scan for a token that starts with --
long_option(s, arg) ==
    LET sp == split_once(arg, "=")
        key == IF sp # None THEN sp[1][1] ELSE arg
        v == option_value(s, IF sp # None THEN Some(sp[1][2]) ELSE None)
        missing == "error: " \o key \o " requires a value"
    IN  CASE key \in {"--test", "--dry-run"} ->
                Advance([s EXCEPT !.global.test = TRUE])
          [] key = "--noconfirm" ->
                Advance([s EXCEPT !.global.noconfirm = TRUE])
          [] key = "--needed" -> Advance([s EXCEPT !.global.needed = TRUE])
          [] key = "--nodeps" ->
                Advance([s EXCEPT !.global.nodeps = saturating_add(@)])
          [] key = "--noscriptlet" ->
                Advance([s EXCEPT !.global.noscriptlet = TRUE])
          [] key = "--asdeps" -> Advance([s EXCEPT !.global.asdeps = TRUE])
          [] key = "--asexplicit" ->
                Advance([s EXCEPT !.global.asexplicit = TRUE])
          [] key = "--overwrite" ->
                IF v.value = None THEN Fail(s, missing)
                ELSE Advance([s EXCEPT !.i = v.i,
                                       !.global.overwrite =
                                           Append(@, v.value[1])])
          [] key = "--root" ->
                IF v.value = None THEN Fail(s, missing)
                ELSE Advance([s EXCEPT !.i = v.i,
                                       !.global.root_dir = v.value])
          [] key = "--dbpath" ->
                IF v.value = None THEN Fail(s, missing)
                ELSE Advance([s EXCEPT !.i = v.i,
                                       !.global.db_path = v.value])
          [] key = "--cachedir" ->
                IF v.value = None THEN Fail(s, missing)
                ELSE Advance([s EXCEPT !.i = v.i,
                                       !.global.cache_dir = v.value])
          [] key = "--strict" -> Advance([s EXCEPT !.global.strict = TRUE])
          [] key = "--compact" -> Advance([s EXCEPT !.global.compact = TRUE])
          [] key = "--verbose" -> Advance([s EXCEPT !.global.verbose = TRUE])
          [] OTHER -> Fail(s, "error: invalid option '" \o arg \o "'")

\* the operation a selector character stands for
OperationOf(ch) ==
    CASE ch = "S" -> "Sync" [] ch = "Q" -> "Query" [] ch = "R" -> "Remove"
      [] OTHER -> "Upgrade"

\* a short-cluster arm that interprets a sub-flag character where it stands:
\* it refuses one that comes before the operation character
RECURSIVE short_cluster_eager(_, _, _)
short_cluster_eager(s, arg, k) ==
    IF k > Len(arg) THEN Advance(s)
    ELSE LET ch == CharAt(arg, k)
         IN  IF ch \in {"S", "Q", "R", "U"}
             THEN LET r == set_operation(s.op, OperationOf(ch))
                  IN  IF r.ok
                      THEN short_cluster_eager([s EXCEPT !.op = r.op],
                                               arg, k + 1)
                      ELSE Fail(s, r.err)
             ELSE IF s.op = None
             THEN Fail(s, "error: invalid option '-" \o ch \o "'")
             ELSE short_cluster_eager([s EXCEPT !.flag_chars = Append(@, ch)],
                                      arg, k + 1)

\* the arm of the scan for a short cluster, from its k-th character on
RECURSIVE short_cluster(_, _, _)
short_cluster(s, arg, k) ==
    IF k > Len(arg) THEN Advance(s)
    ELSE LET ch == CharAt(arg, k)
         IN  IF ch \in {"S", "Q", "R", "U"}
             THEN LET r == set_operation(s.op, OperationOf(ch))
                  IN  IF r.ok
                      THEN short_cluster([s EXCEPT !.op = r.op], arg, k + 1)
                      ELSE Fail(s, r.err)
             ELSE short_cluster([s EXCEPT !.flag_chars = Append(@, ch)],
                                arg, k + 1)

\* one turn of the while loop of parse_args
scan_arg(s) ==
    LET arg == s.args[s.i + 1]
    IN  IF s.in_options /\ arg = "--doctor" THEN Select(s, "Doctor")
        ELSE IF s.in_options /\ arg = "--history" THEN Select(s, "History")
        ELSE IF s.i = 1 /\ arg = "doctor" THEN Select(s, "Doctor")
        ELSE IF s.i = 1 /\ arg = "history" THEN Select(s, "History")
        ELSE IF s.in_options /\ arg \in {"-h", "--help"}
        THEN Accept(s, HelpCommand)
        ELSE IF s.in_options /\ arg = "--"
        THEN Advance([s EXCEPT !.in_options = FALSE])
        ELSE IF s.in_options /\ starts_with(arg, "--")
        THEN long_option(s, arg)
        ELSE IF s.in_options /\ starts_with(arg, "-") /\ Len(arg) > 1
        THEN short_cluster(s, arg, 2)
        ELSE Advance([s EXCEPT !.targets = Append(@, arg)])

\* the match arm of one sub-flag character for the operation of p
flag_char(p, ch) ==
    LET ok(q) == [ok |-> TRUE, p |-> q, err |-> ""]
        bad(o) == [ok |-> FALSE, p |-> p,
                   err |-> "error: invalid option '-" \o ch \o "' for -" \o o]
        nodeps == [p EXCEPT !.global.nodeps = saturating_add(@)]
    IN  CASE p.op = "Sync" ->
                CASE ch = "y" -> ok([p EXCEPT !.sync.refresh = TRUE])
                  [] ch = "u" -> ok([p EXCEPT !.sync.upgrade = TRUE])
                  [] ch = "s" -> ok([p EXCEPT !.sync.search = TRUE])
                  [] ch = "i" -> ok([p EXCEPT !.sync.info = TRUE])
                  [] ch = "d" -> ok(nodeps)
                  [] ch = "c" ->
                        ok([p EXCEPT !.sync.clean_cache = saturating_add(@)])
                  [] OTHER -> bad("S")
          [] p.op = "Query" ->
                CASE ch = "i" -> ok([p EXCEPT !.query.info = TRUE])
                  [] ch = "s" -> ok([p EXCEPT !.query.search = TRUE])
                  [] ch = "l" -> ok([p EXCEPT !.query.list_files = TRUE])
                  [] ch = "m" -> ok([p EXCEPT !.query.manual = TRUE])
                  [] ch = "o" -> ok([p EXCEPT !.query.owns = TRUE])
                  [] ch = "e" -> ok([p EXCEPT !.query.explicit = TRUE])
                  [] ch = "r" -> ok([p EXCEPT !.query.reverse_deps = TRUE])
                  [] OTHER -> bad("Q")
          [] p.op = "Remove" ->
                CASE ch = "s" -> ok([p EXCEPT !.remove.recursive = TRUE])
                  [] ch = "n" -> ok([p EXCEPT !.remove.nosave = TRUE])
                  [] ch = "d" -> ok(nodeps)
                  [] OTHER -> bad("R")
          [] OTHER ->
                CASE ch = "d" -> ok(nodeps)
                  [] OTHER -> bad("U")

\* for ch in flag_chars { match ch ... }: the command with the sub-flags
\* from the k-th on applied, or the error of the first one that is invalid
RECURSIVE interpret_flags(_, _, _)
interpret_flags(p, chars, k) ==
    IF k > Len(chars) THEN [ok |-> TRUE, p |-> p, err |-> ""]
    ELSE LET r == flag_char(p, chars[k])
         IN  IF r.ok THEN interpret_flags(r.p, chars, k + 1) ELSE r

\* parse_args after the scan: the operation must be known, its sub-flags
\* are interpreted, and the command is validated
finish(s) ==
    IF s.op = None
    THEN Fail(s, "error: no operation specified (use -h for help)")
    ELSE LET p == [op |-> s.op[1], sync |-> SyncFlagsDefault,
                   query |-> QueryFlagsDefault, remove |-> RemoveFlagsDefault,
                   targets |-> s.targets, global |-> s.global]
             r == IF p.op \in {"Doctor", "History"}
                  THEN IF s.flag_chars # <<>>
                       THEN [ok |-> FALSE, p |-> p,
                             err |-> "error: " \o to_lowercase(p.op)
                                     \o " does not accept short operation flags"]
                       ELSE [ok |-> TRUE, p |-> p, err |-> ""]
                  ELSE interpret_flags(p, s.flag_chars, 1)
         IN  IF ~r.ok THEN Fail(s, r.err)
             ELSE IF Validate(r.p) # "ok" THEN Fail(s, Validate(r.p))
             ELSE Accept(s, r.p)

\* the ways the hand-over to paru can end: refused for root, paru missing,
\* or paru ran and its exit status became the exit status
ParuOutcomes ==
    {"error: --aur/--paru must be run as a regular user (do not use sudo)",
     "error: paru not found in PATH (install paru or run without --aur)",
     "paru"}

\* main before parse_args: no argument prints the usage, --aur or --paru
\* anywhere on the command line hands the command line over to paru
ParseMain ==
    /\ scan.pc = "main"
    /\ IF Len(scan.args) < 2
       THEN scan' = [scan EXCEPT !.pc = "done", !.outcome.status = "usage"]
       ELSE IF \E k \in 1..Len(scan.args) : scan.args[k] \in {"--aur", "--paru"}
       THEN \E o \in ParuOutcomes :
               scan' = [scan EXCEPT !.pc = "done",
                                    !.outcome.status = "delegated",
                                    !.outcome.err = o]
       ELSE scan' = [scan EXCEPT !.pc = "scan"]
    /\ UNCHANGED <<lookup, hist, progress, prompt, run_vars>>

\* while i < args.len(): one token (two when it is an option's value)
ScanArg ==
    /\ scan.pc = "scan"
    /\ scan.i < Len(scan.args)
    /\ scan' = scan_arg(scan)
    /\ UNCHANGED <<lookup, hist, progress, prompt, run_vars>>

\* the end of the scan
Finish ==
    /\ scan.pc = "scan"
    /\ scan.i >= Len(scan.args)
    /\ scan' = finish(scan)
    /\ UNCHANGED <<lookup, hist, progress, prompt, run_vars>>

ParseNext == ParseMain \/ ScanArg \/ Finish

\* the longest command line, in tokens after the program name
MaxArgs == 3

\* the command lines over the tokens of V
CommandLines(V) == {<<"rustpack">> \o t : t \in SeqsUpTo(V, MaxArgs)}

ParseInit(V) ==
    /\ NoRun
    /\ lookup = NoLookup
    /\ progress = NoProgress
    /\ prompt = NoPrompt
    /\ hist = NoHistory
    /\ scan \in {StartScan(args) : args \in CommandLines(V)}

\* command lines of operation selectors, the separator, help and --aur
SelectorTokens ==
    {"-S", "-Q", "-RS", "-U", "doctor", "--doctor", "history", "--history",
     "-Sy", "-h", "--", "--aur", "--strict", "firefox"}

SelectorInit == ParseInit(SelectorTokens)

SelectorSpec == SelectorInit /\ [][ParseNext]_vars

\* command lines that ask for the dependency checks to be skipped, once or
\* several times, as sub-flag characters and as --nodeps
NodepsTokens ==
    {"-S", "-Sd", "-Sdd", "-d", "-dd", "-R", "-Rdd", "-U", "-Ud", "-Q",
     "--nodeps", "--strict", "-h", "firefox", "./firefox.pkg.tar.zst"}

NodepsInit == ParseInit(NodepsTokens)

NodepsSpec == NodepsInit /\ [][ParseNext]_vars

\* command lines whose sub-flag characters stand before, after and apart
\* from the operation character, among targets, options and the separator
ClusterTokens ==
    {"-S", "-Syu", "-yuS", "-uS", "-y", "-u", "-Q", "-i", "--",
     "--overwrite", "doctor", "firefox"}

ClusterInit == ParseInit(ClusterTokens)

ClusterSpec == ClusterInit /\ [][ParseNext]_vars

\* command lines of -S, -Q and -R with sub-flags and the options that the
\* validation sets against each other
FlagTokens ==
    {"-S", "-Ss", "-Si", "-y", "-u", "-Q", "-d", "-Rd", "--strict",
     "--nodeps", "--noscriptlet", "--overwrite=/usr/*", "--verbose",
     "--compact", "-h", "firefox"}

FlagInit == ParseInit(FlagTokens)

FlagSpec == FlagInit /\ [][ParseNext]_vars

\* command lines of long options, known and unknown, with and without values
LongOptionTokens ==
    {"-Sy", "--root", "--root=/mnt", "/mnt", "--overwrite",
     "--overwrite=/usr/*", "--dbpath", "--cachedir=/c", "--bogus",
     "--bogus=1", "--test", "-h", "--", "firefox"}

LongOptionInit == ParseInit(LongOptionTokens)

LongOptionSpec == LongOptionInit /\ [][ParseNext]_vars

\* command lines of every operation with the options of an installation
InstallFlagTokens ==
    {"-S", "-Q", "-R", "-U", "doctor", "--history", "--needed", "--asdeps",
     "--asexplicit", "--noscriptlet", "--overwrite=/usr/*", "-h", "firefox",
     "./firefox.pkg.tar.zst"}

InstallFlagInit == ParseInit(InstallFlagTokens)

InstallFlagSpec == InstallFlagInit /\ [][ParseNext]_vars

----------------------------------------------------------------------------
(* The whole process: main from the command line to the exit status        *)

\* the exit statuses paru may hand back
ParuStatuses == {0, 1}

\* main once the command line has been dealt with: the usage was printed
\* (exit 0), paru ran (its status, or 1 when it could not be run), parse_args
\* failed (message, exit 1), or the command goes on to the warnings and the
\* dispatch
MainParsed ==
    /\ scan.pc = "done"
    /\ pc = "none"
    /\ CASE scan.outcome.status = "usage" ->
              /\ result' = "ok"
              /\ exit_code' = 0
              /\ pc' = "done"
              /\ Log(<<"print_usage">>)
              /\ UNCHANGED parsed
         [] scan.outcome.status = "delegated" ->
              /\ result' = "delegated"
              /\ IF scan.outcome.err = "paru"
                 THEN exit_code' \in ParuStatuses
                 ELSE exit_code' = 1
              /\ pc' = "done"
              /\ UNCHANGED <<parsed, trace>>
         [] scan.outcome.status = "err" ->
              /\ result' = scan.outcome.err
              /\ exit_code' = 1
              /\ pc' = "done"
              /\ UNCHANGED <<parsed, trace>>
         [] OTHER ->
              /\ parsed' = scan.outcome.cmd
              /\ result' = "running"
              /\ pc' = "main"
              /\ UNCHANGED <<exit_code, trace>>
    /\ UNCHANGED <<units, prepare_failure, isRoot, dbLock, fs, cache, fn,
                   handle, session, trans_flags, idx, names, changeset,
                   commit, reasons, ledger>>

\* command lines of every operation, with the options that decide how a run
\* ends and the options the safety warnings are about
ProgramTokens ==
    {"-S", "-Syu", "-Sc", "-Q", "-R", "-U", "doctor", "history", "--test",
     "--nodeps", "--noscriptlet", "--overwrite=/usr/*", "-h", "firefox",
     "./firefox.pkg.tar.zst"}

\* the longest command line of a whole run, in tokens after the program name
MaxProgramArgs == 2

\* a process that was just started: nothing has run, the command line, the
\* user and the lock file are what they are
ProgramInit ==
    /\ scan \in {StartScan(<<"rustpack">> \o t) :
                    t \in SeqsUpTo(ProgramTokens, MaxProgramArgs)}
    /\ lookup = NoLookup
    /\ progress = NoProgress
    /\ prompt = NoPrompt
    /\ hist = NoHistory
    /\ prepare_failure = NoPrepareFailure
    /\ parsed = HelpCommand
    /\ isRoot \in BOOLEAN
    /\ dbLock \in BOOLEAN
    /\ fs = FsNotRead
    /\ cache = CacheDir
    /\ pc = "none"
    /\ fn = "none"
    /\ handle = "none"
    /\ session = "Uninitialized"
    /\ trans_flags = {}
    /\ idx = 0
    /\ names = <<>>
    /\ changeset = 0
    /\ commit = "none"
    /\ reasons = {}
    /\ result = "none"
    /\ exit_code = -1
    /\ ledger = <<>>
    /\ trace = <<>>

ProgramNext == ParseNext \/ MainParsed \/ Next

ProgramSpec == ProgramInit /\ [][ProgramNext]_vars

\* command lines of the local-file installation with the options of an
\* installation
LocalInstallTokens ==
    {"-U", "./firefox.pkg.tar.zst", "--needed", "--asdeps", "--asexplicit",
     "--noscriptlet", "--overwrite=/usr/*", "--test", "--noconfirm", "-h"}

\* a process that was just started on one of the command lines of C: nothing
\* has run, and the user and the lock file are what they are
ProcessStart(C) ==
    /\ scan \in {StartScan(args) : args \in C}
    /\ lookup = NoLookup
    /\ progress = NoProgress
    /\ prompt = NoPrompt
    /\ hist = NoHistory
    /\ prepare_failure = NoPrepareFailure
    /\ parsed = HelpCommand
    /\ isRoot \in BOOLEAN
    /\ dbLock \in BOOLEAN
    /\ fs = FsNotRead
    /\ cache = CacheDir
    /\ pc = "none"
    /\ fn = "none"
    /\ handle = "none"
    /\ session = "Uninitialized"
    /\ trans_flags = {}
    /\ idx = 0
    /\ names = <<>>
    /\ changeset = 0
    /\ commit = "none"
    /\ reasons = {}
    /\ result = "none"
    /\ exit_code = -1
    /\ ledger = <<>>
    /\ trace = <<>>

LocalInstallInit == ProcessStart(CommandLines(LocalInstallTokens))

\* main, and handle_upgrade with install_local
LocalInstallNext ==
    \/ ParseNext
    \/ MainParsed
    \/ Main
    \/ HandleUpgrade
    \/ PreflightTransaction
    \/ InitHandle
    \/ TransInit
    \/ AddTarget
    \/ TransPrepareOrRelease
    \/ Summarize
    \/ Confirm
    \/ DryRun
    \/ TransCommit
    \/ ReleaseAfterCommit
    \/ RecordOutcome

LocalInstallSpec == LocalInstallInit /\ [][LocalInstallNext]_vars

\* command lines of every operation with -h and --help among options that
\* are valid, invalid, behind the separator, and beside --aur
HelpTokens == ProgramTokens \cup {"--help", "--", "--bogus", "--aur"}

HelpInit ==
    ProcessStart({<<"rustpack">> \o t :
                     t \in SeqsUpTo(HelpTokens, MaxProgramArgs)})

HelpSpec == HelpInit /\ [][ProgramNext]_vars

\* let _ = handle.trans_release() executed once more on the handle of an
\* operation that has ended: libalpm's answer is dropped
ReleaseAgain ==
    /\ pc = "done"
    /\ handle = "live"
    /\ Count(trace, "trans_release") <= MaxReleases
    /\ session' = trans_release(session)
    /\ Log(<<"trans_release">>)
    /\ UNCHANGED <<units, prepare_failure, parsed, isRoot, dbLock, fs, cache,
                   pc, fn, handle, trans_flags, idx, names, changeset, commit,
                   reasons, result, exit_code, ledger>>

ReleaseNext == ProgramNext \/ ReleaseAgain

ReleaseSpec == ProgramInit /\ [][ReleaseNext]_vars

----------------------------------------------------------------------------
(* history.rs: the ledger file                                             *)

\* the position of the first c in s at or after i, 0 when absent
RECURSIVE find_char(_, _, _)
find_char(s, c, i) ==
    IF i > Len(s) THEN 0
    ELSE IF CharAt(s, i) = c THEN i
    ELSE find_char(s, c, i + 1)

\* the number of occurrences of the character c in s
RECURSIVE count_char(_, _)
count_char(s, c) ==
    IF s = "" THEN 0
    ELSE B2N(CharAt(s, 1) = c) + count_char(SubSeq(s, 2, Len(s)), c)

\* the strings over the characters of A of length at most n
RECURSIVE Strings(_, _)
Strings(A, n) ==
    IF n = 0 THEN {""}
    ELSE LET shorter == Strings(A, n - 1)
         IN  shorter \cup {s \o c : s \in shorter, c \in A}

\* str::replace of every occurrence of one character
RECURSIVE replace(_, _, _)
replace(s, from, to) ==
    IF s = "" THEN ""
    ELSE (IF CharAt(s, 1) = from THEN to ELSE CharAt(s, 1))
         \o replace(SubSeq(s, 2, Len(s)), from, to)

\* variant: the separator is written as it is
escape_keeping_separator(input) ==
    replace(replace(input, "\\", "\\\\"), "\n", "\\n")

\* escape
escape(input) ==
    replace(replace(replace(input, "\\", "\\\\"), "|", "\\p"), "\n", "\\n")

\* unescape
RECURSIVE unescape(_)
unescape(input) ==
    IF input = "" THEN ""
    ELSE IF CharAt(input, 1) = "\\"
    THEN IF Len(input) = 1 THEN "\\"
         ELSE LET next == CharAt(input, 2)
              IN  (CASE next = "\\" -> "\\"
                     [] next = "p" -> "|"
                     [] next = "n" -> "\n"
                     [] OTHER -> "\\" \o next)
                  \o unescape(SubSeq(input, 3, Len(input)))
    ELSE CharAt(input, 1) \o unescape(SubSeq(input, 2, Len(input)))

\* str::splitn: at most n pieces, the last one holding the rest
RECURSIVE splitn(_, _, _)
splitn(s, n, c) ==
    LET k == find_char(s, c, 1)
    IN  IF n <= 1 \/ k = 0 THEN <<s>>
        ELSE <<SubSeq(s, 1, k - 1)>> \o splitn(SubSeq(s, k + 1, Len(s)), n - 1, c)

\* str::lines: pieces ended by "\n" or "\r\n"; the last line may lack its
\* terminator
RECURSIVE lines(_)
lines(content) ==
    IF content = "" THEN <<>>
    ELSE LET k == find_char(content, "\n", 1)
         IN  IF k = 0 THEN <<content>>
             ELSE LET line == SubSeq(content, 1, k - 1)
                      stripped == IF line # "" /\ CharAt(line, Len(line)) = "\r"
                                  THEN SubSeq(line, 1, Len(line) - 1)
                                  ELSE line
                  IN  <<stripped>> \o lines(SubSeq(content, k + 1, Len(content)))

DecimalDigits == <<"0", "1", "2", "3", "4", "5", "6", "7", "8", "9">>

\* the value of a decimal digit, -1 for any other character
digit(c) ==
    IF \E d \in 1..10 : DecimalDigits[d] = c
    THEN (CHOOSE d \in 1..10 : DecimalDigits[d] = c) - 1
    ELSE -1

RECURSIVE parse_digits(_, _)
parse_digits(s, acc) ==
    IF s = "" THEN acc
    ELSE IF digit(CharAt(s, 1)) < 0 THEN -1
    ELSE parse_digits(SubSeq(s, 2, Len(s)), acc * 10 + digit(CharAt(s, 1)))

\* str::parse::<u64> and ::<usize>: decimal digits after an optional "+";
\* the numbers of the model stay far below the overflow
parse_number(s) ==
    LET body == IF starts_with(s, "+") THEN SubSeq(s, 2, Len(s)) ELSE s
    IN  IF body = "" \/ parse_digits(body, 0) < 0 THEN None
        ELSE Some(parse_digits(body, 0))

\* parse_entry
parse_entry(line) ==
    LET parts == splitn(line, 6, "|")
    IN  IF Len(parts) # 6 THEN None
        ELSE IF parse_number(parts[2]) = None THEN None
        ELSE Some([id |-> unescape(parts[1]),
                   ts |-> parse_number(parts[2])[1],
                   op |-> unescape(parts[3]),
                   status |-> unescape(parts[4]),
                   targets |-> unescape(parts[5]),
                   summary |-> unescape(parts[6])])

\* Iterator::filter_map(parse_entry)
RECURSIVE filter_map_parse_entry(_)
filter_map_parse_entry(ls) ==
    IF ls = <<>> THEN <<>>
    ELSE parse_entry(Head(ls)) \o filter_map_parse_entry(Tail(ls))

\* read_entries on a ledger file h = [exists, content]
read_entries(h) ==
    IF ~h.exists THEN <<>> ELSE filter_map_parse_entry(lines(h.content))

\* the identifier record gives an entry
entry_id(now, pid) == ToString(now) \o "-" \o ToString(pid)

\* the text record writes for the targets
target_text(targets) ==
    IF targets = <<>> THEN "-" ELSE join(targets, " ")

\* the six fields record writes, before escaping
fields(now, pid, call) ==
    <<entry_id(now, pid), ToString(now), call.operation, call.status,
      target_text(call.targets), call.summary>>

\* the line record formats
record_line(now, pid, call) ==
    LET f == fields(now, pid, call)
    IN  escape(f[1]) \o "|" \o f[2] \o "|" \o escape(f[3]) \o "|"
        \o escape(f[4]) \o "|" \o escape(f[5]) \o "|" \o escape(f[6]) \o "\n"

\* the entry a read is expected to return for a record call
entry_of(now, pid, call) ==
    LET f == fields(now, pid, call)
    IN  [id |-> f[1], ts |-> now, op |-> f[3], status |-> f[4],
         targets |-> f[5], summary |-> f[6]]

\* a write that replaces what the file holds
append_truncating(h, text, cut) ==
    [h EXCEPT !.exists = TRUE, !.content = SubSeq(text, 1, cut)]

\* OpenOptions::append + write_all: the first cut characters of the line
\* reach the file, all of them when the write completes
append(h, text, cut) ==
    [h EXCEPT !.exists = TRUE, !.content = @ \o SubSeq(text, 1, cut)]

\* print_list: the header, then the last limit entries, newest first
print_list(entries, limit) ==
    LET start == IF Len(entries) > limit THEN Len(entries) - limit ELSE 0
        n == Len(entries) - start
    IN  <<"Recent rustpack history:">>
        \o [i \in 1..n |->
              LET e == entries[Len(entries) + 1 - i]
              IN  e.id \o "  ts=" \o ToString(e.ts) \o "  op=" \o e.op
                  \o "  status=" \o e.status \o "  targets=" \o e.targets]

\* print_entry
print_entry(entry) ==
    <<"id      : " \o entry.id, "ts      : " \o ToString(entry.ts),
      "op      : " \o entry.op, "status  : " \o entry.status,
      "targets : " \o entry.targets, "summary : " \o entry.summary>>

\* variant: the limit is used as given
floor_limit_unchanged(limit) == limit

\* usize::max(1) applied to the limit of the listing
floor_limit(limit) == IF limit < 1 THEN 1 ELSE limit

\* show: what it prints for the entries read and the arguments given
show(entries, args) ==
    IF entries = <<>> THEN <<"No history entries found.">>
    ELSE IF args = <<>> THEN print_list(entries, 20)
    ELSE IF args[1] = "show"
    THEN IF Len(args) < 2 THEN <<"usage: rustpack history show <id>">>
         ELSE IF \E i \in 1..Len(entries) : entries[i].id = args[2]
         THEN print_entry(entries[CHOOSE i \in 1..Len(entries) :
                              /\ entries[i].id = args[2]
                              /\ \A j \in 1..(i - 1) : entries[j].id # args[2]])
         ELSE <<"history entry not found: " \o args[2]>>
    ELSE IF parse_number(args[1]) # None
    THEN print_list(entries, floor_limit(parse_number(args[1])[1]))
    ELSE <<"usage:", "  rustpack history", "  rustpack history <limit>",
           "  rustpack history show <id>">>

\* history::record called once more: it reads the clock, which has not gone
\* back since the last call, formats its line and appends it; create_dir_all
\* or open may fail before anything is written
HistoryRecord ==
    /\ hist.left > 0
    /\ \E call \in hist.calls, now \in hist.now..hist.until, pid \in hist.pids :
          LET line == record_line(now, pid, call)
          IN  \/ hist' = [append(hist, line, Len(line))
                            EXCEPT !.now = now, !.left = @ - 1,
                                   !.written = Append(@, entry_of(now, pid, call))]
              \/ hist' = [hist EXCEPT !.now = now, !.left = @ - 1]
    /\ UNCHANGED <<scan, lookup, progress, prompt, run_vars>>

\* history::record stopped inside write_all, by a crash or by an error of the
\* device: only the first characters of its line have reached the file
HistoryRecordInterrupted ==
    /\ hist.left > 0
    /\ \E call \in hist.calls, now \in hist.now..hist.until, pid \in hist.pids :
          LET line == record_line(now, pid, call)
          IN  \E cut \in 0..(Len(line) - 1) :
                 /\ cut <= MaxCut
                 /\ hist' = [append(hist, line, cut)
                               EXCEPT !.now = now, !.left = @ - 1]
    /\ UNCHANGED <<scan, lookup, progress, prompt, run_vars>>

\* read_entries called on the ledger as it is
HistoryRead ==
    /\ hist' = [hist EXCEPT !.entries = read_entries(hist), !.read = TRUE]
    /\ UNCHANGED <<scan, lookup, progress, prompt, run_vars>>

\* history::show called with the targets of the command line; every path of
\* it that has read the ledger returns Ok(())
HistoryShow ==
    /\ hist.result = "none"
    /\ \E args \in hist.calls :
          hist' = [hist EXCEPT !.args = args,
                               !.shown = show(read_entries(hist), args),
                               !.result = "ok"]
    /\ UNCHANGED <<scan, lookup, progress, prompt, run_vars>>

\* one record call with field texts over the characters that escape,
\* unescape and lines treat specially, followed by reads
FieldChars == {"|", "\\", "\n", "\r", "p"}

FieldTexts == Strings(FieldChars, MaxLen)

RoundTripCalls ==
    [operation : FieldTexts, status : {"success"},
     targets : {<<"a|b", "c">>}, summary : FieldTexts]

RoundTripInit ==
    /\ NoRun
    /\ scan = NoScan
    /\ lookup = NoLookup
    /\ progress = NoProgress
    /\ prompt = NoPrompt
    /\ hist \in {[NoHistory EXCEPT !.left = 1, !.calls = {call}] :
                    call \in RoundTripCalls}

RoundTripNext == HistoryRecord \/ HistoryRead

RoundTripSpec == RoundTripInit /\ [][RoundTripNext]_vars

\* the last second the clock reaches while the ledger is exercised
Seconds == 2

\* process::id() of the invocations
Pids == {1, 2}

\* several invocations recording on one ledger, some of them interrupted,
\* and reads in between
LedgerCalls ==
    {[operation |-> "sync", status |-> "success", targets |-> <<"firefox">>,
      summary |-> "transaction committed"],
     [operation |-> "remove", status |-> "cancelled", targets |-> <<>>,
      summary |-> "user cancelled transaction"]}

LedgerInit ==
    /\ NoRun
    /\ scan = NoScan
    /\ lookup = NoLookup
    /\ progress = NoProgress
    /\ prompt = NoPrompt
    /\ hist = [NoHistory EXCEPT !.left = MaxRecords, !.calls = LedgerCalls,
                                 !.until = Seconds, !.pids = Pids]

LedgerNext == HistoryRecord \/ HistoryRecordInterrupted \/ HistoryRead

LedgerSpec == LedgerInit /\ [][LedgerNext]_vars

\* one of several processes inside history::record: it reads the clock and
\* formats its line (history.rs:108-123)
ProcFormat ==
    \E p \in 1..Len(hist.procs), call \in hist.calls,
       now \in hist.now..hist.until :
       /\ hist.procs[p].pc = "start"
       /\ hist' = [hist EXCEPT
                     !.now = now,
                     !.procs[p] = [pc |-> "formatted",
                                   line |-> record_line(now, p, call),
                                   entry |-> Some(entry_of(now, p, call))]]
       /\ UNCHANGED <<scan, lookup, progress, prompt, run_vars>>

\* the process opens the ledger with create and append (history.rs:124)
ProcOpen ==
    \E p \in 1..Len(hist.procs) :
       /\ hist.procs[p].pc = "formatted"
       /\ hist' = [hist EXCEPT !.exists = TRUE, !.procs[p].pc = "opened"]
       /\ UNCHANGED <<scan, lookup, progress, prompt, run_vars>>

\* the process writes its line: one append, which the system carries out
\* whole and at the end of the file as it is at that moment (history.rs:125)
ProcAppend ==
    \E p \in 1..Len(hist.procs) :
       /\ hist.procs[p].pc = "opened"
       /\ hist' = [append(hist, hist.procs[p].line, Len(hist.procs[p].line))
                     EXCEPT !.procs[p].pc = "done"]
       /\ UNCHANGED <<scan, lookup, progress, prompt, run_vars>>

\* a ledger of n entries, recorded one second apart
RECURSIVE Ledger(_)
Ledger(n) ==
    IF n = 0 THEN ""
    ELSE Ledger(n - 1)
         \o record_line(n, 1, [operation |-> "sync", status |-> "success",
                               targets |-> <<"firefox">>,
                               summary |-> "transaction committed"])

\* invocations running at the same time on a ledger that is missing or
\* holds one entry; the process ids of running processes differ
ConcurrentInit ==
    /\ NoRun
    /\ scan = NoScan
    /\ lookup = NoLookup
    /\ progress = NoProgress
    /\ prompt = NoPrompt
    /\ \E n \in {0, 1} :
          hist = [NoHistory EXCEPT
                    !.exists = (n > 0), !.content = Ledger(n),
                    !.calls = LedgerCalls, !.until = Seconds,
                    !.procs = [p \in 1..MaxProcs |->
                                 [pc |-> "start", line |-> "", entry |-> None]]]

ConcurrentNext == ProcFormat \/ ProcOpen \/ ProcAppend

ConcurrentSpec == ConcurrentInit /\ [][ConcurrentNext]_vars

\* the targets given to the history operation
Selectors ==
    {<<>>, <<"0">>, <<"1">>, <<"2">>, <<"20">>, <<"25">>, <<"show">>,
     <<"show", "3-1">>, <<"show", "99-1">>, <<"recent">>}

\* rustpack history run on a ledger that is missing, empty or holds entries
ShowInit ==
    /\ NoRun
    /\ scan = NoScan
    /\ lookup = NoLookup
    /\ progress = NoProgress
    /\ prompt = NoPrompt
    /\ \E n \in 0..MaxEntries :
          hist \in {[NoHistory EXCEPT !.exists = e, !.content = Ledger(n),
                                      !.calls = Selectors] :
                       e \in IF n = 0 THEN BOOLEAN ELSE {TRUE}}

ShowNext == HistoryShow

ShowSpec == ShowInit /\ [][ShowNext]_vars

----------------------------------------------------------------------------
(* alpm_ops.rs: the progress callbacks configure_handle installs           *)

\* the value a HashMap kept as a set of (key, value) pairs holds for a key
Lookup1(map, key, default) ==
    IF \E kv \in map : kv[1] = key
    THEN (CHOOSE kv \in map : kv[1] = key)[2]
    ELSE default

\* HashMap::insert
Insert1(map, key, value) ==
    {kv \in map : kv[1] # key} \cup {<<key, value>>}

\* HashMap::remove
Remove1(map, key) == {kv \in map : kv[1] # key}

\* ((p.downloaded * 100) / p.total) as i32
percent_of(downloaded, total) == (downloaded * 100) \div total

\* a should_print that lets every update through
DownloadState_should_print_always(last_percent, filename, percent) ==
    [print |-> TRUE, last_percent |-> Insert1(last_percent, filename, percent)]

\* DownloadState::should_print: whether to print, and last_percent afterwards
DownloadState_should_print(last_percent, filename, percent) ==
    LET entry == Lookup1(last_percent, filename, -1)
    IN  IF entry = percent
        THEN [print |-> FALSE,
              last_percent |-> Insert1(last_percent, filename, entry)]
        ELSE [print |-> TRUE,
              last_percent |-> Insert1(last_percent, filename, percent)]

\* DownloadState::note_complete: whether to print, and completed afterwards
note_complete(completed, filename) ==
    [print |-> filename \notin completed,
     completed |-> completed \cup {filename}]

\* TransState::should_print: whether to print, and last_key afterwards
TransState_should_print(last_key, key) ==
    IF last_key = Some(key)
    THEN [print |-> FALSE, last_key |-> last_key]
    ELSE [print |-> TRUE, last_key |-> Some(key)]

\* the files libalpm downloads
Files == {"core.db", "firefox.pkg.tar.zst"}

\* the byte counts (downloaded, total) of the Progress events
Transferred == {<<0, 0>>, <<1, 300>>, <<150, 300>>, <<151, 300>>}

\* the download events libalpm hands to the callback
DownloadEvents ==
    [kind : {"Init", "Completed"}, file : Files, downloaded : {0}, total : {0}]
    \cup {[kind |-> "Progress", file |-> f, downloaded |-> t[1], total |-> t[2]] :
             f \in Files, t \in Transferred}

\* the keys (progress, pkgname, percent, current, howmany) of the
\* transaction progress events
TransKeys ==
    {<<"AddStart", n, pc1, 1, 1>> : n \in {"firefox", "vim"}, pc1 \in {50, 100}}

\* the closure given to set_dl_cb, called with one event
DownloadCallback ==
    /\ Len(progress.log) < MaxEvents
    /\ \E e \in DownloadEvents :
          CASE e.kind = "Init" ->
                 progress' = [progress EXCEPT
                    !.last_percent = Remove1(@, e.file),
                    !.completed = @ \ {e.file},
                    !.log = Append(@, [kind |-> "Init", file |-> e.file,
                                       percent |-> -1, key |-> <<>>,
                                       printed |-> FALSE])]
            [] e.kind = "Progress" ->
                 IF e.total > 0
                 THEN LET percent == percent_of(e.downloaded, e.total)
                          r == DownloadState_should_print(progress.last_percent,
                                                          e.file, percent)
                      IN  progress' = [progress EXCEPT
                             !.last_percent = r.last_percent,
                             !.log = Append(@, [kind |-> "Progress",
                                                file |-> e.file,
                                                percent |-> percent,
                                                key |-> <<>>,
                                                printed |-> r.print])]
                 ELSE progress' = [progress EXCEPT
                         !.log = Append(@, [kind |-> "Progress", file |-> e.file,
                                            percent |-> -1, key |-> <<>>,
                                            printed |-> FALSE])]
            [] OTHER ->
                 LET r == note_complete(progress.completed, e.file)
                 IN  progress' = [progress EXCEPT
                        !.completed = r.completed,
                        !.log = Append(@, [kind |-> "Completed", file |-> e.file,
                                           percent |-> -1, key |-> <<>>,
                                           printed |-> r.print])]
    /\ UNCHANGED <<scan, lookup, hist, prompt, run_vars>>

\* the closure given to set_progress_cb, called with one update
ProgressCallback ==
    /\ Len(progress.log) < MaxEvents
    /\ \E key \in TransKeys :
          LET r == TransState_should_print(progress.last_key, key)
          IN  progress' = [progress EXCEPT
                 !.last_key = r.last_key,
                 !.log = Append(@, [kind |-> "Trans", file |-> "",
                                    percent |-> key[3], key |-> key,
                                    printed |-> r.print])]
    /\ UNCHANGED <<scan, lookup, hist, prompt, run_vars>>

\* a freshly configured handle: DownloadState::default(), TransState::default()
ProgressInit ==
    /\ NoRun
    /\ scan = NoScan
    /\ lookup = NoLookup
    /\ hist = NoHistory
    /\ progress = NoProgress
    /\ prompt = NoPrompt

ProgressNext == DownloadCallback \/ ProgressCallback

ProgressSpec == ProgressInit /\ [][ProgressNext]_vars

----------------------------------------------------------------------------
(* The confirmation prompt, over the lines the user may type               *)

\* install_packages of one package has printed the transaction summary
AtPrompt ==
    /\ scan = NoScan
    /\ lookup = NoLookup
    /\ progress = NoProgress
    /\ hist = NoHistory
    /\ prepare_failure = NoPrepareFailure
    /\ \E t, n \in BOOLEAN :
          parsed = [op |-> "Sync", sync |-> SyncFlagsDefault,
                    query |-> QueryFlagsDefault,
                    remove |-> RemoveFlagsDefault,
                    targets |-> <<"firefox">>,
                    global |-> [GlobalFlagsDefault EXCEPT !.test = t,
                                                          !.noconfirm = n]]
    /\ isRoot = TRUE
    /\ dbLock = FALSE
    /\ fs = [gpg_dir |-> "present", pubring_kbx |-> "present",
             pubring_gpg |-> "unread", trustdb |-> "present",
             arch_keyring |-> "present", cachyos_keyring |-> "unread",
             distro |-> "arch"]
    /\ cache = CacheDir
    /\ pc = "confirm"
    /\ fn = "install_packages"
    /\ handle = "live"
    /\ session = "Prepared"
    /\ trans_flags = {}
    /\ idx = 1
    /\ names = <<>>
    /\ changeset = 1
    /\ commit = "none"
    /\ reasons = {}
    /\ result = "running"
    /\ exit_code = -1
    /\ ledger = <<>>
    /\ trace = <<"ensure_db_unlocked", "keyring_check", "init_handle",
                 "trans_init", "find_pkg", "trans_add_pkg", "trans_prepare",
                 "prepare_ok", "print_summary">>

\* the longest line typed at the prompt, without its line end
MaxLine == 3

\* the characters typed at the prompt
LineChars == {"y", "Y", "e", "s", "n", " "}

\* the line ends read_line may leave on the line: none at the end of input
LineEnds == {"", "\n", "\r\n"}

\* the lines read_line may return
Lines == {l \o e : l \in Strings(LineChars, MaxLine), e \in LineEnds}

PromptInit == AtPrompt /\ prompt \in {[line |-> Some(l)] : l \in Lines}

PromptNext ==
    Confirm \/ DryRun \/ TransCommit \/ ReleaseAfterCommit \/ RecordOutcome

PromptSpec == PromptInit /\ [][PromptNext]_vars

----------------------------------------------------------------------------
(* Properties of the transaction orchestrator                              *)

\* the call e has been made in this run
Called(e) == \E i \in 1..Len(trace) : trace[i] = e

\* the call a was made, and made before the first call b
Before(a, b) == First(trace, a) > 0 /\ First(trace, a) < First(trace, b)

\* the calls of history::record made in this run
RecordCalls ==
    {"record:noop", "record:cancelled", "record:dry-run", "record:success",
     "record:failed"}

Recorded == Range(trace) \cap RecordCalls

\* the statuses of the entries appended to the ledger in this run
LedgerStatuses == {ledger[i].status : i \in 1..Len(ledger)}

\* every keyring item preflight_transaction asks for was seen present
KeyringComplete(f) ==
    /\ f.gpg_dir = "present"
    /\ "present" \in {f.pubring_kbx, f.pubring_gpg}
    /\ f.trustdb = "present"
    /\ f.arch_keyring = "present"
    /\ (f.distro = "cachyos" => f.cachyos_keyring = "present")

\* C1: trans_commit is called only after the lock check (and, outside -R,
\* the keyring checks) passed, trans_init succeeded, every target was resolved
\* and added, prepare succeeded with a non-empty changeset, --test is off, and
\* either --noconfirm is set or the user answered yes at the prompt.
C1_CommitOnlyAfterAllGates ==
    Called("trans_commit") =>
        /\ ~dbLock
        /\ Before("ensure_db_unlocked", "trans_init")
        /\ (fn # "remove_packages" =>
               KeyringComplete(fs) /\ Before("keyring_check", "trans_init"))
        /\ Before("trans_init", "prepare_ok")
        /\ Count(trace, "trans_init") = 1
        /\ idx = Len(parsed.targets)
        /\ Count(trace, "find_pkg") = Len(parsed.targets)
        /\ Count(trace, "trans_add_pkg") = Len(parsed.targets)
        /\ Before("prepare_ok", "trans_commit")
        /\ ~Called("prepare_failed")
        /\ changeset > 0
        /\ ~parsed.global.test
        /\ (parsed.global.noconfirm \/ Before("answer_yes", "trans_commit"))
        /\ (~parsed.global.noconfirm => Before("confirm_prompt", "answer_yes"))

\* a commit reached through the prompt, with targets added
C1_Witness ==
    /\ Called("trans_commit")
    /\ Called("answer_yes")
    /\ Len(parsed.targets) > 0
    /\ pc = "release"

\* C2: once trans_init has succeeded, trans_release is called before the
\* operation returns, on every exit path.
C2_ReleasedOnEveryExit ==
    (pc = "done" /\ Called("trans_init")) =>
        session \in {"Uninitialized", "Closed"}

\* C3: in a run that calls trans_commit the session is released exactly
\* once, by the call right after the commit, before any history entry is
\* recorded and before the result is returned.
C3_ReleaseRightAfterCommit ==
    Called("trans_commit") =>
        LET c == First(trace, "trans_commit") IN
        /\ Count(trace, "trans_commit") = 1
        /\ \A i \in 1..c : trace[i] \notin RecordCalls \cup {"trans_release"}
        /\ ledger = <<>> \/ Before("trans_release", "record:success")
              \/ Before("trans_release", "record:failed")
        /\ Len(trace) > c => trace[c + 1] = "trans_release"
        /\ Count(trace, "trans_release") = (IF Len(trace) > c THEN 1 ELSE 0)
        /\ Len(trace) = c => (pc = "release" /\ result = "running"
                              /\ session \in {"Committed", "Failed"})
        /\ Len(trace) > c => session = "Closed"
        /\ result # "running" => (pc = "done" /\ session = "Closed")

\* a run whose commit failed has returned
C3_Witness ==
    /\ pc = "done"
    /\ Called("trans_commit")
    /\ commit \in CommitErrors
    /\ session = "Closed"

\* C4: when the prompt is shown and the user declines, the session is
\* released, a history entry with status cancelled is recorded, the operation
\* returns success (exit status 0) and trans_commit is never called.
C4_DeclineCancels ==
    Called("answer_no") =>
        /\ Before("confirm_prompt", "answer_no")
        /\ Before("answer_no", "trans_release")
        /\ Before("trans_release", "record:cancelled")
        /\ Count(trace, "trans_release") = 1
        /\ session = "Closed"
        /\ Recorded = {"record:cancelled"}
        /\ LedgerStatuses \subseteq {"cancelled"}
        /\ Len(ledger) <= 1
        /\ ~Called("trans_commit")
        /\ commit = "none"
        /\ pc = "done"
        /\ result = "ok"
        /\ exit_code = 0

\* -S firefox, declined at the prompt, entry written
C4_Witness ==
    /\ Called("answer_no")
    /\ parsed.op = "Sync"
    /\ parsed.targets = <<"firefox">>
    /\ LedgerStatuses = {"cancelled"}
    /\ pc = "done"

\* C5: when prepare succeeds and the changeset is empty, the session is
\* released, a history entry with status noop is recorded, the operation
\* returns success, the prompt is not shown and trans_commit is not called.
C5_EmptyChangesetIsNoop ==
    (Called("prepare_ok") /\ changeset = 0 /\ pc # "summarize") =>
        /\ Before("prepare_ok", "trans_release")
        /\ Before("trans_release", "record:noop")
        /\ Count(trace, "trans_release") = 1
        /\ session = "Closed"
        /\ Recorded = {"record:noop"}
        /\ LedgerStatuses \subseteq {"noop"}
        /\ Len(ledger) <= 1
        /\ ~Called("print_summary")
        /\ ~Called("confirm_prompt")
        /\ ~Called("trans_commit")
        /\ pc = "done"
        /\ result = "ok"
        /\ exit_code = 0

\* an empty changeset in a run that would otherwise prompt
C5_Witness ==
    /\ Called("prepare_ok")
    /\ changeset = 0
    /\ pc = "done"
    /\ ~parsed.global.noconfirm
    /\ ~parsed.global.test
    /\ LedgerStatuses = {"noop"}

\* C6: under --test with a non-empty changeset the prompt is not shown,
\* trans_commit is not called, the session is released, a history entry with
\* status dry-run is recorded and the operation returns success.
C6_DryRunSkipsCommit ==
    parsed.global.test =>
        /\ ~Called("confirm_prompt")
        /\ ~Called("trans_commit")
        /\ commit = "none"
        /\ (Called("prepare_ok") /\ changeset > 0) =>
              pc \in {"summarize", "confirm", "dry_run", "done"}
        /\ (Called("prepare_ok") /\ changeset > 0 /\ pc = "done") =>
              /\ Before("prepare_ok", "print_summary")
              /\ Before("print_summary", "print_skip_commit")
              /\ Before("print_skip_commit", "trans_release")
              /\ Before("trans_release", "record:dry-run")
              /\ Count(trace, "trans_release") = 1
              /\ session = "Closed"
              /\ Recorded = {"record:dry-run"}
              /\ LedgerStatuses \subseteq {"dry-run"}
              /\ Len(ledger) <= 1
              /\ result = "ok"
              /\ exit_code = 0

\* a dry run of a command that would otherwise prompt
C6_Witness ==
    /\ parsed.global.test
    /\ ~parsed.global.noconfirm
    /\ Len(parsed.targets) > 0
    /\ changeset > 0
    /\ LedgerStatuses = {"dry-run"}
    /\ pc = "done"

\* the command line -Syu --test
IsSyuTest ==
    /\ parsed.op = "Sync"
    /\ parsed.sync = [SyncFlagsDefault EXCEPT !.refresh = TRUE,
                                              !.upgrade = TRUE]
    /\ parsed.targets = <<>>
    /\ parsed.global = [GlobalFlagsDefault EXCEPT !.test = TRUE]

\* C7 as stated: for -Syu --test, run as root with preflight passing, the
\* refresh is skipped with a printed reason, the full-upgrade transaction is
\* opened, prepared and summarized, commit is not called and the history
\* entry has status dry-run.
C7_SyuTestAlwaysDryRun ==
    (IsSyuTest /\ Called("prepare_ok") /\ pc = "done") =>
        /\ Before("print_skip_update", "trans_init")
        /\ ~Called("db_update")
        /\ Before("trans_init", "sync_sysupgrade")
        /\ Before("sync_sysupgrade", "prepare_ok")
        /\ Before("prepare_ok", "print_summary")
        /\ ~Called("trans_commit")
        /\ Recorded = {"record:dry-run"}

\* C7 (amended): for -Syu --test the refresh is skipped with a printed reason
\* and neither the prompt nor trans_commit is reached; once the full-upgrade
\* transaction is opened and prepared, a non-empty changeset is summarized and
\* recorded as dry-run, while an empty one is not summarized and is recorded
\* as noop; a run that does not get through prepare records nothing.
C7_SyuTestDryRunOrNoop ==
    IsSyuTest =>
        /\ ~Called("db_update")
        /\ ~Called("confirm_prompt")
        /\ ~Called("trans_commit")
        /\ Called("trans_init") => Before("print_skip_update", "trans_init")
        /\ Called("prepare_ok") =>
              /\ Before("trans_init", "sync_sysupgrade")
              /\ Before("sync_sysupgrade", "prepare_ok")
        /\ (Called("prepare_ok") /\ pc = "done" /\ changeset > 0) =>
              /\ Before("prepare_ok", "print_summary")
              /\ Recorded = {"record:dry-run"}
              /\ LedgerStatuses \subseteq {"dry-run"}
              /\ result = "ok"
        /\ (Called("prepare_ok") /\ pc = "done" /\ changeset = 0) =>
              /\ ~Called("print_summary")
              /\ Recorded = {"record:noop"}
              /\ LedgerStatuses \subseteq {"noop"}
              /\ result = "ok"
        /\ ~Called("prepare_ok") => (Recorded = {} /\ ledger = <<>>)

\* -Syu --test with pending upgrades, entry written
C7_Witness ==
    /\ IsSyuTest
    /\ Called("print_skip_update")
    /\ Called("print_summary")
    /\ LedgerStatuses = {"dry-run"}
    /\ pc = "done"

\* C8: in a run that reaches commit, the history status is success exactly
\* when the commit succeeded and failed exactly when it returned an error,
\* and the operation's result is the commit's result.
C8_HistoryMatchesCommit ==
    (Called("trans_commit") /\ pc = "done") =>
        /\ commit \in {"ok"} \cup CommitErrors
        /\ result = commit
        /\ exit_code = (IF commit = "ok" THEN 0 ELSE 1)
        /\ (commit = "ok") <=> (Recorded = {"record:success"})
        /\ (commit # "ok") <=> (Recorded = {"record:failed"})
        /\ Cardinality({i \in 1..Len(trace) : trace[i] \in RecordCalls}) = 1
        /\ LedgerStatuses
              \subseteq {IF commit = "ok" THEN "success" ELSE "failed"}
        /\ Len(ledger) <= 1

\* a failed commit, entry written
C8_Witness ==
    /\ pc = "done"
    /\ commit = "conflicting files"
    /\ result = "conflicting files"
    /\ LedgerStatuses = {"failed"}

\* the commands that change the system: -S installs, upgrades, refreshes and
\* cache cleaning, -U and -R
Mutating(p) ==
    \/ p.op \in {"Remove", "Upgrade"}
    \/ (p.op = "Sync" /\ ~p.sync.search /\ ~p.sync.info)

\* C9: for every mutating command, if db.lck exists the command fails,
\* trans_init is never called, no history entry is recorded, and the lock
\* file is neither removed nor overridden.
C9_LockedDatabaseBlocks ==
    /\ [](Mutating(parsed) /\ dbLock =>
            /\ ~Called("trans_init")
            /\ session = "Uninitialized"
            /\ Recorded = {}
            /\ ledger = <<>>
            /\ result # "ok"
            /\ pc = "done" => exit_code = 1)
    /\ [][dbLock' = dbLock]_vars

\* a root run of a mutating command stopped by the lock check
C9_Witness ==
    /\ Mutating(parsed)
    /\ dbLock
    /\ isRoot
    /\ Called("ensure_db_unlocked")
    /\ result = "database is locked"
    /\ pc = "done"

\* a keyring item preflight_transaction asks for was seen missing
KeyringMissing(f) ==
    \/ f.gpg_dir = "missing"
    \/ (f.pubring_kbx = "missing" /\ f.pubring_gpg = "missing")
    \/ f.trustdb = "missing"
    \/ f.arch_keyring = "missing"
    \/ (f.distro = "cachyos" /\ f.cachyos_keyring = "missing")

\* C10: for -S with targets, refresh or upgrade and for -U, a missing keyring
\* directory, public keyring file, trustdb or keyring package makes the
\* command fail before any libalpm handle or transaction is created; for -R
\* only the lock check is performed.
C10_KeyringPreflight ==
    /\ (fn \in {"sync_install", "install_packages", "install_local"}
        /\ KeyringMissing(fs)) =>
           /\ pc = "done"
           /\ result \notin {"ok", "running"}
           /\ exit_code = 1
           /\ handle = "none"
           /\ session = "Uninitialized"
           /\ ~Called("init_handle")
           /\ ~Called("trans_init")
           /\ Recorded = {}
    /\ (fn \in {"sync_install", "install_packages", "install_local"}
        /\ Called("init_handle")) =>
           /\ Before("keyring_check", "init_handle")
           /\ KeyringComplete(fs)
    /\ fn = "remove_packages" =>
           /\ fs = FsNotRead
           /\ ~Called("keyring_check")
           /\ Called("init_handle") =>
                 Before("ensure_db_unlocked", "init_handle")

\* -U stopped by a missing trustdb
C10_Witness ==
    /\ fn = "install_local"
    /\ fs.trustdb = "missing"
    /\ result = "keyring trustdb missing"
    /\ pc = "done"

\* C11: when prepare fails with a message that mentions architecture and
\* the transaction holds a package whose architecture is neither any nor
\* allowed, the error returned carries the original message, the allowed
\* architectures and every offending package with its architecture.
C11_ArchMismatchListsOffenders ==
    (/\ Called("prepare_failed")
     /\ contains(to_lowercase(prepare_failure.msg), "architecture")
     /\ \E i \in 1..Len(prepare_failure.pkgs) :
           is_offender(prepare_failure.pkgs[i])) =>
        /\ starts_with(result, prepare_failure.msg)
        /\ contains(result, "Allowed architectures: x86_64")
        /\ \A i \in 1..Len(prepare_failure.pkgs) :
              is_offender(prepare_failure.pkgs[i]) =>
                 contains(result,
                          prepare_failure.pkgs[i].name \o " ("
                          \o arch_or_unknown(prepare_failure.pkgs[i].arch)
                          \o ")")

\* the target cannot be resolved by operation f: a sync target in no
\* repository, a removal target not installed, a file that does not load
Unresolvable(f, name) ==
    CASE f = "install_local" -> name \notin LoadableFiles
      [] f = "remove_packages" -> name \notin LocalDb
      [] OTHER -> \A i \in 1..Len(SyncDbs) : name \notin SyncDbs[i]

\* C12: for every mutating operation, if one target cannot be resolved the
\* operation fails with an error, and neither prepare nor commit is called
\* for the targets that did resolve.
C12_UnresolvedTargetAborts ==
    (/\ fn \in {"install_packages", "sync_install", "install_local",
                "remove_packages"}
     /\ \E i \in 1..Len(parsed.targets) :
           Unresolvable(fn, parsed.targets[i])) =>
        /\ ~Called("trans_prepare")
        /\ ~Called("trans_commit")
        /\ session \in {"Uninitialized", "Open"}
        /\ changeset = 0
        /\ commit = "none"
        /\ Recorded = {}
        /\ pc \notin {"prepare", "summarize", "confirm", "dry_run", "commit",
                      "release", "record"}
        /\ pc = "done" => (result # "ok" /\ exit_code = 1)

\* -S firefox ghost: the first target was added, the second is in no repository
C12_Witness ==
    /\ fn = "install_packages"
    /\ parsed.targets = <<"firefox", "ghost">>
    /\ Count(trace, "trans_add_pkg") = 1
    /\ Count(trace, "find_pkg") = 2
    /\ result = "error: target not found: ghost"
    /\ pc = "done"

\* C13: find_sync_pkg returns the package from the first repository, in
\* registration order, that contains the name, and the target not found
\* error exactly when no registered repository contains it.
C13_FirstRepositoryWins ==
    lookup.result # <<>> =>
        LET r == lookup.result[1]
            holding == {i \in 1..Len(lookup.dbs) :
                           lookup.name \in lookup.dbs[i]}
        IN  /\ r.ok <=> holding # {}
            /\ r.ok => /\ r.db \in holding
                       /\ \A j \in holding : r.db <= j
                       /\ r.name = lookup.name
            /\ ~r.ok =>
                  r.err = "error: target not found: " \o lookup.name

\* the second and the third repository both hold the name: the second wins
C13_Witness ==
    /\ lookup.result # <<>>
    /\ Len(lookup.dbs) = 3
    /\ lookup.name \notin lookup.dbs[1]
    /\ lookup.name \in lookup.dbs[2]
    /\ lookup.name \in lookup.dbs[3]
    /\ lookup.result[1].ok
    /\ lookup.result[1].db = 2

\* the calls that belong to the transaction path: the lock and keyring
\* preflight, and opening, preparing, committing and releasing a transaction
TransactionCalls ==
    {"ensure_db_unlocked", "keyring_check", "trans_init", "trans_prepare",
     "prepare_ok", "prepare_failed", "trans_commit", "trans_release"}

\* C14: the non-mutating commands (-Q in every mode, -Ss, -Si, doctor,
\* history) never run the lock or keyring preflight, never open, prepare or
\* commit a transaction, and never append a history entry.
C14_ReadOnlyCommandsStayOutOfTransactions ==
    (parsed.op \in {"Query", "Doctor", "History"}
     \/ (parsed.op = "Sync" /\ (parsed.sync.search \/ parsed.sync.info))) =>
        /\ Range(trace) \cap TransactionCalls = {}
        /\ Recorded = {}
        /\ ledger = <<>>
        /\ session = "Uninitialized"
        /\ changeset = 0
        /\ commit = "none"
        /\ pc \notin {"ensure_db_unlocked", "preflight", "trans_init",
                      "prepare", "commit", "release", "record"}

\* a finished -Q run on a locked database: the query ran, the lock was
\* never looked at
C14_Witness ==
    /\ parsed.op = "Query"
    /\ dbLock
    /\ Called("query")
    /\ result = "ok"
    /\ pc = "done"
    /\ exit_code = 0

----------------------------------------------------------------------------
(* Properties of the command line                                          *)

\* the operations the token under the scan selects: --doctor and --history,
\* doctor and history as the first token, and the characters S, Q, R and U
\* of a short cluster; none once option parsing has ended
SelectedOps(s) ==
    LET arg == s.args[s.i + 1]
    IN  IF ~s.in_options THEN {}
        ELSE IF arg = "--doctor" \/ (s.i = 1 /\ arg = "doctor")
        THEN {"Doctor"}
        ELSE IF arg = "--history" \/ (s.i = 1 /\ arg = "history")
        THEN {"History"}
        ELSE IF starts_with(arg, "-") /\ ~starts_with(arg, "--")
                /\ arg # "-h"
        THEN {OperationOf(CharAt(arg, k)) :
                 k \in {j \in 2..Len(arg) :
                           CharAt(arg, j) \in {"S", "Q", "R", "U"}}}
        ELSE {}

\* the scan is about to read a token
Scanning(s) == s.pc = "scan" /\ s.i < Len(s.args)

\* C15: a token that selects an operation different from the one already
\* selected (or two different operations itself) makes parse_args fail with
\* the only one operation error; selecting the same operation again leaves
\* the selected operation unchanged and is not an error.
C15_OneOperationOnly ==
    [][(Scanning(scan) /\ SelectedOps(scan) # {}) =>
          LET chosen == SelectedOps(scan)
                        \cup (IF scan.op = None THEN {} ELSE {scan.op[1]})
          IN  IF Cardinality(chosen) > 1
              THEN /\ scan'.pc = "done"
                   /\ scan'.outcome.status = "err"
                   /\ scan'.outcome.err =
                          "error: only one operation may be used at a time"
              ELSE /\ scan'.pc = "scan"
                   /\ scan'.op # None
                   /\ scan'.op[1] \in chosen
                   /\ scan.op # None => scan'.op = scan.op]_vars

\* -S -S -Q: the second -S changed nothing, -Q was refused
C15_Witness ==
    /\ scan.args = <<"rustpack", "-S", "-S", "-Q">>
    /\ scan.i = 3
    /\ scan.op = Some("Sync")
    /\ scan.pc = "done"
    /\ scan.outcome.status = "err"
    /\ scan.outcome.err = "error: only one operation may be used at a time"

\* parse_args has returned
Returned(s) == s.pc = "done" /\ s.outcome.status \in {"ok", "err"}

\* the scan stopped at -h or --help, read as an option
HelpScanned(s) ==
    /\ s.i < Len(s.args)
    /\ s.in_options
    /\ s.args[s.i + 1] \in {"-h", "--help"}

\* the sub-flag c has been given
Given(s, c) == \E k \in 1..Len(s.flag_chars) : s.flag_chars[k] = c

\* -S with search or info together with refresh or upgrade, or with search
\* and info together
SyncModeConflict(s) ==
    /\ s.op = Some("Sync")
    /\ \/ (Given(s, "s") \/ Given(s, "i")) /\ (Given(s, "y") \/ Given(s, "u"))
       \/ Given(s, "s") /\ Given(s, "i")

\* C16 as stated: for all Sync command lines, search or info combined with
\* refresh or upgrade, or search combined with info, always fails parsing.
C16_ModeConflictAlwaysFails ==
    (Returned(scan) /\ SyncModeConflict(scan)) => scan.outcome.status = "err"

\* C16, amended: a Sync command line that combines search or info with
\* refresh or upgrade, or search with info, never yields a Sync command:
\* parse_args fails, unless the scan reaches -h or --help, and then it
\* returns Help, for which main prints the usage and runs no handler.
C16_ModeConflictFailsOrHelp ==
    (Returned(scan) /\ SyncModeConflict(scan)) =>
        IF HelpScanned(scan)
        THEN scan.outcome.status = "ok" /\ scan.outcome.cmd = HelpCommand
        ELSE scan.outcome.status = "err"

\* -Ss -y firefox is refused by the validation of -S
C16_Witness ==
    /\ scan.args = <<"rustpack", "-Ss", "-y", "firefox">>
    /\ scan.pc = "done"
    /\ scan.targets = <<"firefox">>
    /\ scan.outcome.status = "err"
    /\ scan.outcome.err = "error: -s/-i cannot be combined with -y/-u"

\* --strict was given together with a dependency bypass (-d or --nodeps),
\* --noscriptlet or an --overwrite pattern
StrictWithBypass(s) ==
    /\ s.global.strict
    /\ \/ s.global.nodeps > 0
       \/ Given(s, "d")
       \/ s.global.noscriptlet
       \/ s.global.overwrite # <<>>

\* the command parse_args accepted has strict set together with a bypass
AcceptedStrictWithBypass(s) ==
    /\ s.outcome.status = "ok"
    /\ s.outcome.cmd.global.strict
    /\ \/ s.outcome.cmd.global.nodeps > 0
       \/ s.outcome.cmd.global.noscriptlet
       \/ s.outcome.cmd.global.overwrite # <<>>

\* C17 as stated: for every command line in which strict mode is set,
\* enabling -d/--nodeps, --noscriptlet or an overwrite pattern makes parsing
\* fail; no accepted command has strict set together with a non-zero bypass
\* level, noscriptlet or a non-empty overwrite list.
C17_StrictBypassAlwaysFails ==
    /\ (Returned(scan) /\ StrictWithBypass(scan)) =>
           scan.outcome.status = "err"
    /\ ~AcceptedStrictWithBypass(scan)

\* C17, amended: for every command line in which strict mode is set,
\* enabling -d/--nodeps, --noscriptlet or an overwrite pattern makes parsing
\* fail unless the scan reaches -h or --help, and then Help is returned with
\* default options; no accepted command has strict set together with a
\* non-zero bypass level, noscriptlet or a non-empty overwrite list.
C17_StrictBypassFailsOrHelp ==
    /\ (Returned(scan) /\ StrictWithBypass(scan)) =>
           IF HelpScanned(scan)
           THEN scan.outcome.status = "ok" /\ scan.outcome.cmd = HelpCommand
           ELSE scan.outcome.status = "err"
    /\ ~AcceptedStrictWithBypass(scan)

\* -Rd --strict firefox is valid for -R and refused for --strict
C17_Witness ==
    /\ scan.args = <<"rustpack", "-Rd", "--strict", "firefox">>
    /\ scan.pc = "done"
    /\ scan.global.strict
    /\ scan.outcome.status = "err"
    /\ scan.outcome.err = "error: --strict disallows --nodeps/-d/-dd"

\* the command parse_args accepted has both output modes set
AcceptedBothOutputModes(s) ==
    /\ s.outcome.status = "ok"
    /\ s.outcome.cmd.global.verbose
    /\ s.outcome.cmd.global.compact

\* C18 as stated: no command accepted by parse_args has both verbose and
\* compact set; any command line giving both --verbose and --compact fails
\* parsing.
C18_VerboseCompactAlwaysFails ==
    /\ ~AcceptedBothOutputModes(scan)
    /\ (Returned(scan) /\ scan.global.verbose /\ scan.global.compact) =>
           scan.outcome.status = "err"

\* C18, amended: no command accepted by parse_args has both verbose and
\* compact set; a command line giving both --verbose and --compact fails
\* parsing unless the scan reaches -h or --help, and then Help is returned
\* with neither set.
C18_VerboseCompactFailsOrHelp ==
    /\ ~AcceptedBothOutputModes(scan)
    /\ (Returned(scan) /\ scan.global.verbose /\ scan.global.compact) =>
           IF HelpScanned(scan)
           THEN scan.outcome.status = "ok" /\ scan.outcome.cmd = HelpCommand
           ELSE scan.outcome.status = "err"

\* -Q --compact --verbose is a valid query refused for its output modes
C18_Witness ==
    /\ scan.args = <<"rustpack", "-Q", "--compact", "--verbose">>
    /\ scan.pc = "done"
    /\ scan.outcome.status = "err"
    /\ scan.outcome.err =
           "error: --compact and --verbose cannot be used together"

\* the token at position k of the command line comes after a -- token
AfterSeparator(args, k) == \E j \in 2..(k - 1) : args[j] = "--"

\* C19: after a literal -- token every subsequent token is appended to the
\* target list, in order, and is never interpreted as an option, an
\* operation selector or a pseudo-operation, whatever it starts with: the
\* scan appends it, and main does not take it for --aur or --paru.
C19_SeparatorEndsOptions ==
    /\ [](scan.outcome.status = "delegated" =>
             \A k \in 2..Len(scan.args) :
                scan.args[k] \in {"--aur", "--paru"} =>
                   ~AfterSeparator(scan.args, k))
    /\ [][(Scanning(scan) /\ ~scan.in_options) =>
             scan' = [scan EXCEPT !.i = @ + 1,
                                  !.targets = Append(@, scan.args[scan.i + 1])]
         ]_vars

\* the long options parse_args knows
OptionTable ==
    {"--test", "--dry-run", "--noconfirm", "--needed", "--nodeps",
     "--noscriptlet", "--asdeps", "--asexplicit", "--overwrite", "--root",
     "--dbpath", "--cachedir", "--strict", "--compact", "--verbose"}

\* the long options that take a value
ValueOptions == {"--overwrite", "--root", "--dbpath", "--cachedir"}

\* the scan is about to read a long option: a token that starts with --,
\* read as an option, other than the separator, help and the
\* pseudo-operations
LongToken(s) ==
    /\ Scanning(s)
    /\ s.in_options
    /\ starts_with(s.args[s.i + 1], "--")
    /\ s.args[s.i + 1] \notin {"--", "--help", "--doctor", "--history"}

\* the name of a long option: the token up to its first =
KeyOf(arg) ==
    IF contains(arg, "=") THEN split_once(arg, "=")[1][1] ELSE arg

\* the value s holds for the value-taking option key is v (for --overwrite,
\* the pattern added last)
Holds(s, key, v) ==
    CASE key = "--overwrite" ->
            /\ s.global.overwrite # <<>>
            /\ s.global.overwrite[Len(s.global.overwrite)] = v
      [] key = "--root" -> s.global.root_dir = Some(v)
      [] key = "--dbpath" -> s.global.db_path = Some(v)
      [] OTHER -> s.global.cache_dir = Some(v)

\* C20: a long option that is not in the table is a hard parse error; a
\* value-taking option (--overwrite, --root, --dbpath, --cachedir) takes its
\* value from =value, or else from the following token, and fails with an
\* error naming the option when neither exists.
C20_LongOptions ==
    [][LongToken(scan) =>
          LET arg == scan.args[scan.i + 1]
              key == KeyOf(arg)
          IN  IF key \notin OptionTable
              THEN /\ scan'.pc = "done"
                   /\ scan'.outcome.status = "err"
                   /\ scan'.outcome.err = "error: invalid option '" \o arg \o "'"
              ELSE IF key \notin ValueOptions
              THEN scan'.pc = "scan" /\ scan'.i = scan.i + 1
              ELSE IF contains(arg, "=")
              THEN /\ scan'.pc = "scan"
                   /\ scan'.i = scan.i + 1
                   /\ Holds(scan', key, split_once(arg, "=")[1][2])
              ELSE IF scan.i + 1 < Len(scan.args)
              THEN /\ scan'.pc = "scan"
                   /\ scan'.i = scan.i + 2
                   /\ Holds(scan', key, scan.args[scan.i + 2])
              ELSE /\ scan'.pc = "done"
                   /\ scan'.outcome.status = "err"
                   /\ scan'.outcome.err =
                          "error: " \o key \o " requires a value"]_vars

\* -Sy --root /mnt: the value of --root is the token that follows it
C20_Witness ==
    /\ scan.args = <<"rustpack", "-Sy", "--root", "/mnt">>
    /\ scan.pc = "done"
    /\ scan.outcome.status = "ok"
    /\ scan.outcome.cmd.op = "Sync"
    /\ scan.outcome.cmd.global.root_dir = Some("/mnt")
    /\ scan.outcome.cmd.targets = <<>>

\* one of --needed, --asdeps, --asexplicit, --noscriptlet, --overwrite was
\* given
InstallOnlyGiven(s) ==
    \/ s.global.needed
    \/ s.global.asdeps
    \/ s.global.asexplicit
    \/ s.global.noscriptlet
    \/ s.global.overwrite # <<>>

\* the errors that refuse an option for not belonging to the operation
InstallOnlyRejections ==
    {"error: --needed/--asdeps/--asexplicit/--noscriptlet only apply to -S",
     "error: --overwrite only applies to -S",
     "error: invalid options for -R"}

\* C21: --needed, --asdeps, --asexplicit, --noscriptlet and --overwrite are
\* rejected at parse time for every operation that is not an install-type
\* operation (query, remove, doctor, history), a command line answered with
\* help aside, and are not refused for the install-type operations, -S and -U.
C21_InstallOnlyFlags ==
    /\ (/\ Returned(scan)
        /\ scan.op # None
        /\ scan.op[1] \in {"Query", "Remove", "Doctor", "History"}
        /\ InstallOnlyGiven(scan)
        /\ ~HelpScanned(scan)) =>
           scan.outcome.status = "err"
    /\ (/\ Returned(scan)
        /\ scan.op # None
        /\ scan.op[1] \in {"Sync", "Upgrade"}
        /\ InstallOnlyGiven(scan)) =>
           scan.outcome.err \notin InstallOnlyRejections

----------------------------------------------------------------------------
(* Properties of the whole process                                         *)

\* parse_args accepted the command line and main went on with its command
Dispatched == scan.outcome.status = "ok" /\ pc # "none"

\* C22: the exit code is 0 when no arguments are given (the usage is
\* printed), on help, and whenever the selected handler returns success,
\* cancellation, dry-run and no-op included; it is 1 on every parse or
\* validation error and whenever the handler returns an error.
C22_ExitCodes ==
    pc = "done" =>
        /\ scan.outcome.status = "usage" =>
               exit_code = 0 /\ Called("print_usage")
        /\ (Dispatched /\ parsed.op = "Help") =>
               exit_code = 0 /\ Called("print_usage")
        /\ (Dispatched /\ result = "ok") => exit_code = 0
        /\ (Dispatched /\ LedgerStatuses \cap {"cancelled", "dry-run", "noop"} # {}) =>
               result = "ok" /\ exit_code = 0
        /\ scan.outcome.status = "err" =>
               exit_code = 1 /\ result = scan.outcome.err /\ trace = <<>>
        /\ (Dispatched /\ result \notin {"ok", "exited"}) => exit_code = 1

\* rustpack -S firefox, declined at the prompt: cancelled, exit 0
C22_Witness ==
    /\ scan.args = <<"rustpack", "-S", "firefox">>
    /\ Dispatched
    /\ pc = "done"
    /\ LedgerStatuses = {"cancelled"}
    /\ result = "ok"
    /\ exit_code = 0

\* the safety warnings
Warnings == {"warn_nodeps", "warn_noscriptlet", "warn_overwrite"}

\* the handler main dispatches the operation o to
HandlerOf(o) ==
    CASE o = "Sync" -> "handle_sync"
      [] o = "Query" -> "handle_query"
      [] o = "Remove" -> "handle_remove"
      [] o = "Upgrade" -> "handle_upgrade"
      [] o = "Doctor" -> "handle_doctor"
      [] o = "History" -> "handle_history"
      [] OTHER -> "done"

\* C23: the safety warnings are emitted once, after parsing succeeded and
\* before the operation handler starts, one for each of: bypass level > 0,
\* scriptlet suppression, non-empty overwrite list; emitting them changes
\* neither the handler that runs nor anything the handler works on.
C23_WarningsOnceBeforeHandler ==
    /\ [](/\ (scan.outcome.status # "ok" \/ pc \in {"none", "main"}) =>
                Range(trace) \cap Warnings = {}
          /\ (Dispatched /\ pc # "main") =>
                /\ Count(trace, "warn_nodeps") = B2N(parsed.global.nodeps > 0)
                /\ Count(trace, "warn_noscriptlet") = B2N(parsed.global.noscriptlet)
                /\ Count(trace, "warn_overwrite") = B2N(parsed.global.overwrite # <<>>)
                /\ \A i, j \in 1..Len(trace) :
                      (trace[i] \in Warnings /\ trace[j] \notin Warnings) => i < j)
    /\ [][pc = "main" =>
             /\ pc' = HandlerOf(parsed.op)
             /\ UNCHANGED <<units, prepare_failure, parsed, isRoot, dbLock, fs,
                            cache, fn, handle, session, trans_flags, idx,
                            names, changeset, commit, reasons, ledger>>
             /\ (parsed.op # "Help" => UNCHANGED <<result, exit_code>>)]_vars

\* rustpack -Syu --nodeps as root: one warning, then the handler ran
C23_Witness ==
    /\ scan.args = <<"rustpack", "-Syu", "--nodeps">>
    /\ Dispatched
    /\ isRoot
    /\ trace # <<>>
    /\ trace[1] = "warn_nodeps"
    /\ Count(trace, "warn_nodeps") = 1
    /\ Called("ensure_db_unlocked")
    /\ pc = "done"

----------------------------------------------------------------------------
(* Properties of the history ledger                                        *)

\* the step is a read_entries call
ReadStep == hist' = [hist EXCEPT !.entries = read_entries(hist), !.read = TRUE]

\* what the caller of record gave, as the entry has it
Given4(e) == <<e.op, e.status, e.targets, e.summary>>

\* C24: a read that follows a record returns an entry whose operation,
\* status, targets and summary are exactly the strings given to record,
\* whatever characters they hold
C24_RoundTrip ==
    [][(ReadStep /\ hist.written # <<>>)
          => /\ Len(hist'.entries) = Len(hist.written)
             /\ \A i \in 1..Len(hist.written) :
                   Given4(hist'.entries[i]) = Given4(hist.written[i])]_vars

\* the text of the ledger without its last character
Body(text) == SubSeq(text, 1, Len(text) - 1)

IsPrefix(a, b) == Len(a) <= Len(b) /\ SubSeq(b, 1, Len(a)) = a

\* the step is a record call that returned Ok
RecordedStep == Len(hist'.written) = Len(hist.written) + 1

\* C26: the ledger only grows at its end: every step leaves the old content
\* as a prefix of the new one, a record call that succeeds adds exactly one
\* line, and a read returns the entries recorded so far, in their order
C26_AppendOnly ==
    [][/\ IsPrefix(hist.content, hist'.content)
       /\ RecordedStep
             => Len(lines(hist'.content)) = Len(lines(hist.content)) + 1
       /\ ReadStep => hist'.entries = hist.written]_vars

\* C27: whatever writes were interrupted, every entry whose record call
\* completed, before or after the interruption, is returned intact by a read
C27_InterruptedWriteLosesNothingElse ==
    \A i \in 1..Len(hist.written) :
       \E j \in 1..Len(read_entries(hist)) :
          read_entries(hist)[j] = hist.written[i]

\* the seconds and the process id an identifier was made of
IdKey(id) ==
    <<parse_number(split_once(id, "-")[1][1])[1],
      parse_number(split_once(id, "-")[1][2])[1]>>

\* identifier a does not come after identifier b
IdLeq(a, b) ==
    \/ IdKey(a)[1] < IdKey(b)[1]
    \/ IdKey(a)[1] = IdKey(b)[1] /\ IdKey(a)[2] <= IdKey(b)[2]

\* C28: two entries recorded on one ledger never carry the same identifier,
\* and the identifier of the later one is not smaller, also when both were
\* recorded within one second
C28_IdsUniqueAndMonotonic ==
    \A i, j \in 1..Len(hist.written) :
       i < j => /\ hist.written[i].id # hist.written[j].id
                /\ IdLeq(hist.written[i].id, hist.written[j].id)

\* the entries read from the ledger shown
ShownEntries == read_entries(hist)

\* the last n entries, newest first, as print_list renders them
MostRecent(n) ==
    LET len == Len(ShownEntries)
        k == IF n < len THEN n ELSE len
    IN  [i \in 1..k |->
           LET e == ShownEntries[len + 1 - i]
           IN  e.id \o "  ts=" \o ToString(e.ts) \o "  op=" \o e.op
               \o "  status=" \o e.status \o "  targets=" \o e.targets]

\* what show printed below the header of the listing
Listed == Tail(hist.shown)

\* show was given a number as its only argument
NumericSelector ==
    /\ hist.result = "ok"
    /\ Len(hist.args) = 1
    /\ hist.args[1] \in {"0", "1", "2", "20", "25"}
    /\ ShownEntries # <<>>

NumberGiven ==
    CASE hist.args[1] = "0" -> 0 [] hist.args[1] = "1" -> 1
      [] hist.args[1] = "2" -> 2 [] hist.args[1] = "20" -> 20
      [] hist.args[1] = "25" -> 25

\* show without a selector lists the 20 most recent entries, or all of them
ShowsDefault ==
    (hist.result = "ok" /\ hist.args = <<>> /\ ShownEntries # <<>>)
       => Listed = MostRecent(20)

\* show <id> renders the entry that carries the identifier
ShowsEntry ==
    (/\ hist.result = "ok"
     /\ Len(hist.args) = 2
     /\ hist.args[1] = "show"
     /\ \E i \in 1..Len(ShownEntries) : ShownEntries[i].id = hist.args[2])
       => \E i \in 1..Len(ShownEntries) :
             /\ ShownEntries[i].id = hist.args[2]
             /\ hist.shown[1] = "id      : " \o ShownEntries[i].id
             /\ hist.shown[6] = "summary : " \o ShownEntries[i].summary

\* a missing ledger is an empty history, and show succeeds on it
ShowsMissing ==
    ~hist.exists
       => /\ ShownEntries = <<>>
          /\ hist.result = "ok" => hist.shown = <<"No history entries found.">>

\* C29 as stated: the default listing, the listing of exactly the N most
\* recent entries for a number N, the entry of an identifier, and success
\* on a missing ledger
C29_ShowAsStated ==
    /\ ShowsDefault
    /\ NumericSelector => Listed = MostRecent(NumberGiven)
    /\ ShowsEntry
    /\ ShowsMissing
    /\ hist.result \in {"none", "ok"}

\* C29, amended: as stated, except that a number below 1 lists one entry
C29_Show ==
    /\ ShowsDefault
    /\ NumericSelector
          => Listed = MostRecent(IF NumberGiven < 1 THEN 1 ELSE NumberGiven)
    /\ ShowsEntry
    /\ ShowsMissing
    /\ hist.result \in {"none", "ok"}

\* a ledger of more than 20 entries has been listed without a selector
C29_Witness ==
    /\ hist.result = "ok"
    /\ hist.args = <<>>
    /\ Len(ShownEntries) > 20
    /\ Len(Listed) = 20
    /\ starts_with(Listed[1], ShownEntries[Len(ShownEntries)].id)

\* what the operation returns after a record call, whatever became of the
\* write: Ok(()) on the noop, cancelled, dry-run and success paths, the error
\* of the commit on the failed path
ReturnedAfter(call) == IF call = "record:failed" THEN commit ELSE "ok"

\* the write of the history entry failed: record was called and the ledger
\* has no entry of this run
HistoryWriteFailed == Recorded # {} /\ ledger = <<>>

\* C30: on every path that ends in a history::record call, the value the
\* operation returns and the exit code are those of the path itself, the
\* same with the entry written and with the write failed; the failure of
\* the write is never what is returned
C30_HistoryFailureNeverMasks ==
    (pc = "done" /\ Recorded # {})
       => \A call \in Recorded :
             /\ result = ReturnedAfter(call)
             /\ exit_code = (IF ReturnedAfter(call) = "ok" THEN 0 ELSE 1)
             /\ call = "record:failed" => result # "ok"
             /\ HistoryWriteFailed => result # "failed to write history"

\* a committed transaction whose history write failed has returned Ok(())
C30_Witness ==
    /\ pc = "done"
    /\ Recorded = {"record:success"}
    /\ HistoryWriteFailed
    /\ result = "ok"
    /\ exit_code = 0

----------------------------------------------------------------------------
(* Properties of the session, the progress output and the prompt           *)

\* the step calls trans_release
ReleaseStep ==
    /\ Len(trace') > Len(trace)
    /\ \E i \in (Len(trace) + 1)..Len(trace') : trace'[i] = "trans_release"

PrintedFor(file) ==
    {i \in 1..Len(progress.log) :
        /\ progress.log[i].kind = "Progress"
        /\ progress.log[i].file = file
        /\ progress.log[i].printed}

\* the positions of the log at which a transaction update was printed
PrintedTrans ==
    {i \in 1..Len(progress.log) :
        progress.log[i].kind = "Trans" /\ progress.log[i].printed}

\* i and j are neighbours in the set S of positions
InARow(S, i, j) ==
    i \in S /\ j \in S /\ i < j /\ \A k \in S : ~(i < k /\ k < j)

\* the download of the file was started again between positions i and j
StartedBetween(file, i, j) ==
    \E k \in (i + 1)..(j - 1) :
       progress.log[k].kind = "Init" /\ progress.log[k].file = file

\* no transaction update is printed twice in a row
TransNeverRepeated ==
    \A i, j \in PrintedTrans :
       InARow(PrintedTrans, i, j) => progress.log[i].key # progress.log[j].key

\* C32 as stated: for every file, two percentages printed one after the
\* other differ, and so do two transaction updates printed one after the other
C32_NeverPrintedTwiceInARow ==
    /\ \A f \in Files : \A i, j \in PrintedFor(f) :
          InARow(PrintedFor(f), i, j)
             => progress.log[i].percent # progress.log[j].percent
    /\ TransNeverRepeated

\* C32, amended: the same, for the percentages printed within one download
\* of the file, that is with no Init event of the file in between
C32_NeverPrintedTwiceWithinADownload ==
    /\ \A f \in Files : \A i, j \in PrintedFor(f) :
          (InARow(PrintedFor(f), i, j) /\ ~StartedBetween(f, i, j))
             => progress.log[i].percent # progress.log[j].percent
    /\ TransNeverRepeated

\* a percentage was printed, and the same percentage of the same file, which
\* came again, was held back
C32_Witness ==
    \E i, j \in 1..Len(progress.log) :
       /\ i < j
       /\ progress.log[i].kind = "Progress"
       /\ progress.log[j].kind = "Progress"
       /\ progress.log[i].file = progress.log[j].file
       /\ progress.log[i].percent = 50
       /\ progress.log[j].percent = 50
       /\ progress.log[i].printed
       /\ ~progress.log[j].printed

\* every process has left history::record
AllRecorded ==
    /\ hist.procs # <<>>
    /\ \A p \in 1..Len(hist.procs) : hist.procs[p].pc = "done"

\* C33: when processes record on one ledger at the same time, each with one
\* atomic append, the ledger holds in the end, after what it held before,
\* exactly one well-formed line for each of them: every line parses, every
\* process finds its own entry, and no line belongs to two of them
C33_ConcurrentAppends ==
    AllRecorded
       => LET ls == lines(hist.content)
              es == read_entries(hist)
              old == Len(es) - Len(hist.procs)
          IN  /\ Len(ls) = Len(es)
              /\ old \in {0, 1}
              /\ SubSeq(es, 1, old)
                    = read_entries([exists |-> TRUE, content |-> Ledger(old)])
              /\ \E order \in [1..Len(hist.procs) -> 1..Len(hist.procs)] :
                    /\ \A p, q \in 1..Len(hist.procs) :
                          order[p] = order[q] => p = q
                    /\ \A p \in 1..Len(hist.procs) :
                          Some(es[old + order[p]]) = hist.procs[p].entry

\* two processes had both formatted their lines before either wrote, and
\* the one that formatted its line for the later second wrote first
C33_Witness ==
    /\ AllRecorded
    /\ Len(read_entries(hist)) = Len(hist.procs) + 1
    /\ read_entries(hist)[2].ts > read_entries(hist)[3].ts

----------------------------------------------------------------------------
(* Further properties of the command line                                  *)

\* parse_args has returned a command other than Help
Accepted(s) ==
    s.pc = "done" /\ s.outcome.status = "ok" /\ s.outcome.cmd.op # "Help"

\* C34: the dependency-check bypass level of an accepted command is 0, 1 or
\* 2, however many -d characters and --nodeps options the command line holds
C34_BypassLevelAtMostTwo ==
    Accepted(scan) => scan.outcome.cmd.global.nodeps \in {0, 1, 2}

\* parse_args run to its return on the locals s
RECURSIVE parse_from(_)
parse_from(s) ==
    IF s.pc # "scan" THEN s
    ELSE IF s.i < Len(s.args) THEN parse_from(scan_arg(s))
    ELSE finish(s)

\* what parse_args returns for the command line args
parse_args(args) == parse_from([StartScan(args) EXCEPT !.pc = "scan"]).outcome

\* the positions of args that the scan, continued from s, reads as short
\* clusters
RECURSIVE clusters_from(_)
clusters_from(s) ==
    IF s.pc # "scan" \/ s.i >= Len(s.args) THEN {}
    ELSE LET arg == s.args[s.i + 1]
             here == IF /\ s.in_options
                        /\ ~(s.i = 1 /\ arg \in {"doctor", "history"})
                        /\ arg \notin {"-h", "--help"}
                        /\ starts_with(arg, "-") /\ ~starts_with(arg, "--")
                        /\ Len(arg) > 1
                     THEN {s.i + 1} ELSE {}
         IN  here \cup clusters_from(scan_arg(s))

Clusters(args) == clusters_from([StartScan(args) EXCEPT !.pc = "scan"])

\* the characters of the cluster arg from the k-th on that are operation
\* characters (ops = TRUE), or that are sub-flag characters (ops = FALSE)
RECURSIVE chars_of(_, _, _)
chars_of(arg, k, ops) ==
    IF k > Len(arg) THEN ""
    ELSE LET ch == CharAt(arg, k)
         IN  (IF (ch \in {"S", "Q", "R", "U"}) = ops THEN ch ELSE "")
                \o chars_of(arg, k + 1, ops)

\* the sub-flag characters of the clusters of args at the positions k..,
\* in the order of the command line
RECURSIVE sub_flags_from(_, _)
sub_flags_from(args, k) ==
    IF k > Len(args) THEN ""
    ELSE (IF k \in Clusters(args) THEN chars_of(args[k], 2, FALSE) ELSE "")
            \o sub_flags_from(args, k + 1)

\* args with every sub-flag character moved into the first cluster, after
\* the operation characters of that cluster: the other clusters keep their
\* operation characters, and one that held none is dropped
RECURSIVE gather_from(_, _)
gather_from(args, k) ==
    IF k > Len(args) THEN <<>>
    ELSE LET C == Clusters(args)
             first == CHOOSE c \in C : \A d \in C : c <= d
             opchars == chars_of(args[k], 2, TRUE)
             token == IF k \notin C THEN <<args[k]>>
                      ELSE IF k = first
                      THEN <<"-" \o opchars \o sub_flags_from(args, 1)>>
                      ELSE IF opchars = "" THEN <<>>
                      ELSE <<"-" \o opchars>>
         IN  token \o gather_from(args, k + 1)

Gathered(args) == gather_from(args, 1)

\* no token of args is -h or --help
WithoutHelp(args) == \A k \in 1..Len(args) : args[k] \notin {"-h", "--help"}

\* C35: on a command line without -h, parse_args returns what it returns for
\* the command line with the same tokens whose sub-flag characters all stand
\* in one cluster behind the operation character, wherever the clusters put
\* them, before, after or apart from the operation character
C35_SubFlagPlacementIsIrrelevant ==
    (Returned(scan) /\ WithoutHelp(scan.args))
        => scan.outcome = parse_args(Gathered(scan.args))

\* the cluster -uS was followed by a cluster -y, and the command line parsed
\* to the command that refreshes and upgrades
C35_Witness ==
    /\ Accepted(scan)
    /\ scan.args[2] = "-uS"
    /\ \E k \in 3..Len(scan.args) :
          scan.args[k] = "-y" /\ k \in Clusters(scan.args)
    /\ Gathered(scan.args) # scan.args
    /\ scan.outcome.cmd.sync.refresh /\ scan.outcome.cmd.sync.upgrade

----------------------------------------------------------------------------
(* Properties of the confirmation prompt                                   *)

\* the line read at the prompt, trimmed and lower-cased
Response == to_lowercase(trim(prompt.line[1]))

\* the run has ended after its prompt was shown
Prompted == pc = "done" /\ prompt.line # None /\ Called("confirm_prompt")

\* C36: the prompt answers yes exactly when the line read, trimmed and
\* lower-cased, is empty, y or yes; every other line declines, and the run
\* takes the cancelled path: no commit, the release, the cancelled entry
C36_YesExactlyOnEmptyYOrYes ==
    Prompted =>
        /\ Called("answer_yes") <=> Response \in {"", "y", "yes"}
        /\ ~Called("answer_yes") =>
              /\ Called("answer_no")
              /\ ~Called("trans_commit")
              /\ Recorded = {"record:cancelled"}
              /\ session = "Closed"
              /\ result = "ok"

\* an upper-case YES, or a Y between blanks before a carriage return, was
\* taken for yes and the transaction was committed
C36_Witness ==
    /\ Prompted
    /\ prompt.line[1] \in {"YES\n", " Y \r\n"}
    /\ Called("answer_yes")
    /\ Called("trans_commit")

----------------------------------------------------------------------------
(* Further properties of the run                                           *)

\* the functions that change the system through a transaction
MutatingOperations ==
    {"install_packages", "install_local", "remove_packages", "sync_install"}

\* the run is one of sync_install with -y, without -u and without targets
RefreshOnly ==
    /\ fn = "sync_install"
    /\ parsed.sync.refresh /\ ~parsed.sync.upgrade /\ parsed.targets = <<>>

\* the run ended with an error before trans_prepare had succeeded: in the
\* preflight, while the handle or the transaction was opened, while the
\* transaction was populated, or in the prepare
FailedBeforePrepared ==
    /\ pc = "done"
    /\ result \notin {"ok", "running"}
    /\ ~Called("prepare_ok")

\* C37: a run of a mutating operation calls record at most once and appends
\* at most one entry, whose status is noop, cancelled, dry-run, success or
\* failed; a run that failed before the prepare had succeeded, and a
\* refresh-only run, append none
C37_AtMostOneEntry ==
    fn \in MutatingOperations =>
        /\ Len(ledger) <= 1
        /\ Cardinality({i \in 1..Len(trace) : trace[i] \in RecordCalls}) <= 1
        /\ LedgerStatuses
              \subseteq {"noop", "cancelled", "dry-run", "success", "failed"}
        /\ (FailedBeforePrepared \/ RefreshOnly) =>
              ledger = <<>> /\ Recorded = {}

\* a removal whose commit failed left the one entry of its run
C37_Witness ==
    /\ pc = "done"
    /\ fn = "remove_packages"
    /\ Called("trans_commit")
    /\ Len(ledger) = 1 /\ ledger[1].status = "failed"

----------------------------------------------------------------------------
(* Properties of the local-file installation                               *)

\* parse_args has returned for a command line that selected -U and gave one
\* of the options of an installation
LocalInstallWithInstallOption ==
    /\ Returned(scan)
    /\ scan.op = Some("Upgrade")
    /\ InstallOnlyGiven(scan)

\* install_local never runs with scriptlet suppression, and no install
\* reason is changed in a run of it
LocalInstallLeavesReasons ==
    fn = "install_local" =>
        /\ "NO_SCRIPTLET" \notin trans_flags
        /\ ~parsed.global.noscriptlet
        /\ reasons = {}

\* C38 as stated: with -U, --needed, --asdeps, --asexplicit, --noscriptlet
\* and --overwrite always fail parsing, so install_local never runs with
\* scriptlet suppression and no install reason is changed in a run of it
C38_LocalInstallOptionsAlwaysRejected ==
    /\ LocalInstallWithInstallOption => scan.outcome.status = "err"
    /\ LocalInstallLeavesReasons

\* C38: with -U, --needed, --asdeps, --asexplicit, --noscriptlet and
\* --overwrite are never accepted: parsing fails, or the scan reaches -h and
\* the command is Help; so install_local never runs with scriptlet
\* suppression and no install reason is changed in a run of it
C38_LocalInstallOptionsNeverAccepted ==
    /\ LocalInstallWithInstallOption =>
          IF HelpScanned(scan)
          THEN scan.outcome.status = "ok" /\ scan.outcome.cmd = HelpCommand
          ELSE scan.outcome.status = "err"
    /\ LocalInstallLeavesReasons

\* -U with a package file and --noscriptlet was refused and the process
\* ended with status 1, no function having been called
C38_Witness ==
    /\ LocalInstallWithInstallOption
    /\ scan.global.noscriptlet
    /\ scan.targets = <<"./firefox.pkg.tar.zst">>
    /\ scan.outcome.err
          = "error: --needed/--asdeps/--asexplicit/--noscriptlet only apply to -S"
    /\ pc = "done" /\ exit_code = 1 /\ fn = "none" /\ trace = <<>>

----------------------------------------------------------------------------
(* Properties of the dry run                                               *)

----------------------------------------------------------------------------
(* Properties of the help option                                           *)

\* a turn of the scan that takes up -h or --help as an option
HelpStep == scan.pc = "scan" /\ HelpScanned(scan) /\ scan' # scan

\* parse_args was called and returned at -h or --help
HelpReturned == Returned(scan) /\ HelpScanned(scan)

\* something was scanned before the help option, or follows it
HelpAmongOthers ==
    \/ scan.op # None
    \/ scan.targets # <<>>
    \/ scan.global # GlobalFlagsDefault
    \/ scan.i + 1 < Len(scan.args)

\* C40: when the scan takes up -h or --help as an option, parse_args returns
\* at once the Help command with default options and no targets, whatever
\* was scanned before and whatever follows; the process then prints the
\* usage, calls no handler and exits 0
C40_HelpDiscardsTheCommandLine ==
    /\ [][HelpStep =>
            /\ scan'.pc = "done"
            /\ scan'.i = scan.i
            /\ scan'.outcome.status = "ok"
            /\ scan'.outcome.cmd.op = "Help"
            /\ scan'.outcome.cmd.targets = <<>>
            /\ scan'.outcome.cmd.global = GlobalFlagsDefault
            /\ scan'.outcome.cmd.sync = SyncFlagsDefault
            /\ scan'.outcome.cmd.query = QueryFlagsDefault
            /\ scan'.outcome.cmd.remove = RemoveFlagsDefault]_vars
    /\ [](HelpReturned =>
            /\ pc \in {"none", "main", "done"}
            /\ fn = "none"
            /\ pc = "main" => parsed.op = "Help"
            /\ pc = "done" =>
                  /\ exit_code = 0
                  /\ result = "ok"
                  /\ trace = <<"print_usage">>)

\* -h or --help was taken up on a command line that held more than it, and
\* the process printed the usage and ended with status 0
C40_Witness ==
    /\ HelpReturned
    /\ HelpAmongOthers
    /\ pc = "done"
    /\ Called("print_usage")
    /\ exit_code = 0

====
